---- MODULE Spec2Model ----
(***************************************************************************)
(* A model of the PL-ultimate catalog builder and its linkers.             *)
(*                                                                         *)
(* Python strings are sequences of characters; a character is a one-letter *)
(* TLA+ string, except the non-ASCII characters the model uses, which are  *)
(* written by their code point: "U+00E9" (e with acute accent), "U+266F"   *)
(* (music sharp), "U+2013" and "U+2014" (dashes), "U+2019", "U+201C" and   *)
(* "U+201D" (typographic quotes), "U+1F525" (the fire emoji).              *)
(***************************************************************************)
EXTENDS Integers, Sequences, FiniteSets, TLC

(***************************************************************************)
(* Characters                                                              *)
(***************************************************************************)

\* The ASCII characters of the model, in code-point order (Python compares
\* strings by code point).
Ascii ==
  << "\t", " ", "!", "\"", "#", "'", "*", "+", ",", "-", ".", "/",
     "0", "1", "2", "3", "4", "5", "6", "7", "8", "9", ";",
     "A", "B", "C", "D", "E", "F", "G", "H", "I", "J", "K", "L", "M",
     "N", "O", "P", "Q", "R", "S", "T", "U", "V", "W", "X", "Y", "Z", "_",
     "a", "b", "c", "d", "e", "f", "g", "h", "i", "j", "k", "l", "m",
     "n", "o", "p", "q", "r", "s", "t", "u", "v", "w", "x", "y", "z", "|" >>

AsciiSet == { Ascii[i] : i \in DOMAIN Ascii }

\* the characters outside ASCII, in code-point order
NonAscii ==
  << "U+00E9", "U+2013", "U+2014", "U+2019", "U+201C", "U+201D", "U+266F",
     "U+1F525" >>

\* the place of a character in the order of the code points
Code(c) == CHOOSE i \in DOMAIN (Ascii \o NonAscii) : (Ascii \o NonAscii)[i] = c

Digits == { "0", "1", "2", "3", "4", "5", "6", "7", "8", "9" }

LowerSeq ==
  << "a", "b", "c", "d", "e", "f", "g", "h", "i", "j", "k", "l", "m",
     "n", "o", "p", "q", "r", "s", "t", "u", "v", "w", "x", "y", "z" >>

UpperSeq ==
  << "A", "B", "C", "D", "E", "F", "G", "H", "I", "J", "K", "L", "M",
     "N", "O", "P", "Q", "R", "S", "T", "U", "V", "W", "X", "Y", "Z" >>

LowerLetters == { LowerSeq[i] : i \in DOMAIN LowerSeq }

UpperLetters == { UpperSeq[i] : i \in DOMAIN UpperSeq }

\* str.lower() on one character
LowerChar(c) ==
  IF c \in UpperLetters
  THEN LowerSeq[CHOOSE i \in DOMAIN UpperSeq : UpperSeq[i] = c]
  ELSE c

\* \w of the re module on ASCII text
IsWord(c) == c \in LowerLetters \cup UpperLetters \cup Digits \cup { "_" }

\* \s of the re module, and the characters str.strip() removes
IsSpace(c) == c \in { " ", "\t" }

(***************************************************************************)
(* Sequences as strings                                                    *)
(***************************************************************************)

Max(a, b) == IF a >= b THEN a ELSE b

Range(s) == { s[i] : i \in DOMAIN s }

\* s[i:] and s[:i] with 1-based TLA+ positions
From(s, i) == SubSeq(s, i, Len(s))

Upto(s, i) == SubSeq(s, 1, i)

RECURSIVE MapSeq(_, _)
MapSeq(Op(_), s) ==
  IF s = << >> THEN << >> ELSE << Op(Head(s)) >> \o MapSeq(Op, Tail(s))

\* str.lower()
Lower(s) == [ i \in DOMAIN s |-> LowerChar(s[i]) ]

RECURSIVE LStripBy(_, _)
LStripBy(Drop(_), s) ==
  IF s # << >> /\ Drop(Head(s)) THEN LStripBy(Drop, Tail(s)) ELSE s

RECURSIVE RStripBy(_, _)
RStripBy(Drop(_), s) ==
  IF s # << >> /\ Drop(s[Len(s)]) THEN RStripBy(Drop, Upto(s, Len(s) - 1)) ELSE s

\* str.strip(): whitespace off both ends
Strip(s) == RStripBy(IsSpace, LStripBy(IsSpace, s))

IsHyphen(c) == c = "-"

\* str.strip("-")
StripHyphens(s) == RStripBy(IsHyphen, LStripBy(IsHyphen, s))

\* a < b as Python compares two strings
RECURSIVE StrLess(_, _)
StrLess(a, b) ==
  IF b = << >> THEN FALSE
  ELSE IF a = << >> THEN TRUE
  ELSE IF Head(a) = Head(b) THEN StrLess(Tail(a), Tail(b))
  ELSE Code(Head(a)) < Code(Head(b))

\* sorted(S) for a set of strings
RECURSIVE SortStrings(_)
SortStrings(S) ==
  IF S = { } THEN << >>
  ELSE LET m == CHOOSE x \in S : \A y \in S \ { x } : StrLess(x, y)
       IN  << m >> \o SortStrings(S \ { m })

\* sep.join(parts) for a sequence of strings
RECURSIVE Join(_, _)
Join(sep, parts) ==
  IF parts = << >> THEN << >>
  ELSE IF Len(parts) = 1 THEN parts[1]
  ELSE parts[1] \o sep \o Join(sep, Tail(parts))

\* s.replace(old, new) for a one-character old
RECURSIVE ReplaceChar(_, _, _)
ReplaceChar(s, old, new) ==
  IF s = << >> THEN << >>
  ELSE (IF Head(s) = old THEN new ELSE << Head(s) >>)
       \o ReplaceChar(Tail(s), old, new)

\* re.sub(r"\s+", rep, s): every maximal run of whitespace becomes rep
RECURSIVE SubSpaceRuns(_, _)
SubSpaceRuns(s, rep) ==
  IF s = << >> THEN << >>
  ELSE IF IsSpace(Head(s))
       THEN rep \o SubSpaceRuns(LStripBy(IsSpace, s), rep)
       ELSE << Head(s) >> \o SubSpaceRuns(Tail(s), rep)

RECURSIVE SplitRuns(_, _)
\* re.split of s at the maximal runs of separator characters
SplitRuns(IsSep(_), s) ==
  IF \E i \in DOMAIN s : IsSep(s[i])
  THEN LET n == CHOOSE i \in DOMAIN s :
                  IsSep(s[i]) /\ \A j \in 1..(i - 1) : ~IsSep(s[j])
       IN  << Upto(s, n - 1) >> \o SplitRuns(IsSep, LStripBy(IsSep, From(s, n)))
  ELSE << s >>

\* s.split(): the maximal runs of non-whitespace characters, in order
RECURSIVE SplitSpace(_)
SplitSpace(s) ==
  LET t == LStripBy(IsSpace, s)
      n == IF \E i \in DOMAIN t : IsSpace(t[i])
           THEN (CHOOSE i \in DOMAIN t :
                   IsSpace(t[i]) /\ \A j \in 1..(i - 1) : ~IsSpace(t[j])) - 1
           ELSE Len(t)
  IN  IF t = << >> THEN << >>
      ELSE << Upto(t, n) >> \o SplitSpace(From(t, n + 1))

(***************************************************************************)
(* Normalization and identifiers (build_master_list_local_pldb.py)         *)
(***************************************************************************)

\* unicodedata.normalize("NFKD", s).encode("ascii", "ignore").decode("ascii"):
\* an accented letter decomposes to its base letter and a combining mark,
\* which is dropped; a character with no decomposition is dropped whole.
RECURSIVE NfkdAscii(_)
NfkdAscii(s) ==
  IF s = << >> THEN << >>
  ELSE (CASE Head(s) = "U+00E9" -> << "e" >>
          [] Head(s) = "U+266F" -> << >>
          [] OTHER -> << Head(s) >>)
       \o NfkdAscii(Tail(s))

\* s.replace("++", " plus plus "): left to right, without overlap
RECURSIVE ReplacePlusPlus(_)
ReplacePlusPlus(s) ==
  IF s = << >> THEN << >>
  ELSE IF Len(s) >= 2 /\ s[1] = "+" /\ s[2] = "+"
       THEN << " ", "p", "l", "u", "s", " ", "p", "l", "u", "s", " " >>
            \o ReplacePlusPlus(From(s, 3))
       ELSE << Head(s) >> \o ReplacePlusPlus(Tail(s))

\* re.sub(r"[^\w\s#+]", " ", s)
KeepWordSpaceSharpPlus(s) ==
  [ i \in DOMAIN s |->
      IF IsWord(s[i]) \/ IsSpace(s[i]) \/ s[i] \in { "#", "+" } THEN s[i] ELSE " " ]

\* norm without the replacement of "#" by " sharp "
norm_sharp_kept(s) ==
  IF s = << >> THEN << >>
  ELSE LET s1 == NfkdAscii(s)
           s2 == Strip(Lower(s1))
           s3 == ReplacePlusPlus(ReplaceChar(s2, "U+266F", << "#" >>))
           s4 == KeepWordSpaceSharpPlus(s3)
           s5 == SubSpaceRuns(s4, << " " >>)
       IN  StripHyphens(SubSpaceRuns(s5, << "-" >>))

norm(s) ==
  IF s = << >> THEN << >>
  ELSE LET s1 == NfkdAscii(s)
           s2 == Strip(Lower(s1))
           s3 == ReplacePlusPlus(ReplaceChar(s2, "U+266F", << "#" >>))
           s4 == KeepWordSpaceSharpPlus(s3)
           s5 == SubSpaceRuns(s4, << " " >>)
           s6 == ReplaceChar(s5, "#", << " ", "s", "h", "a", "r", "p", " " >>)
       IN  StripHyphens(SubSpaceRuns(s6, << "-" >>))

\* hashlib.sha1(s.encode("utf-8", "ignore")).hexdigest()[:8] for every string
\* of at most four characters that norm maps to the empty string (the values
\* are those of SHA-1 on the UTF-8 bytes).
Sha1Hex8Table ==
  (<<>> :> <<"d", "a", "3", "9", "a", "3", "e", "e">>) @@
  (<<" ">> :> <<"b", "8", "5", "8", "c", "b", "2", "8">>) @@
  (<<"-">> :> <<"3", "b", "c", "1", "5", "c", "8", "a">>) @@
  (<<"U+266F">> :> <<"4", "6", "c", "8", "0", "0", "a", "3">>) @@
  (<<" ", " ">> :> <<"0", "9", "9", "6", "0", "0", "a", "1">>) @@
  (<<" ", "-">> :> <<"b", "0", "4", "0", "3", "9", "f", "3">>) @@
  (<<" ", "U+266F">> :> <<"f", "9", "a", "f", "c", "6", "0", "5">>) @@
  (<<"-", " ">> :> <<"b", "a", "4", "f", "a", "2", "b", "f">>) @@
  (<<"-", "-">> :> <<"e", "6", "a", "9", "f", "c", "0", "4">>) @@
  (<<"-", "U+266F">> :> <<"d", "6", "1", "1", "8", "e", "b", "e">>) @@
  (<<"U+266F", " ">> :> <<"2", "3", "d", "d", "b", "9", "3", "6">>) @@
  (<<"U+266F", "-">> :> <<"0", "0", "3", "b", "a", "b", "6", "d">>) @@
  (<<"U+266F", "U+266F">> :> <<"9", "f", "7", "7", "4", "b", "e", "1">>) @@
  (<<" ", " ", " ">> :> <<"0", "8", "8", "f", "b", "1", "a", "4">>) @@
  (<<" ", " ", "-">> :> <<"7", "3", "9", "c", "a", "4", "3", "9">>) @@
  (<<" ", " ", "U+266F">> :> <<"4", "2", "a", "f", "2", "b", "5", "a">>) @@
  (<<" ", "-", " ">> :> <<"f", "c", "0", "2", "e", "1", "9", "9">>) @@
  (<<" ", "-", "-">> :> <<"d", "6", "e", "c", "a", "0", "9", "6">>) @@
  (<<" ", "-", "U+266F">> :> <<"1", "b", "e", "7", "c", "3", "b", "8">>) @@
  (<<" ", "U+266F", " ">> :> <<"f", "7", "c", "6", "2", "a", "a", "c">>) @@
  (<<" ", "U+266F", "-">> :> <<"7", "f", "0", "5", "4", "3", "6", "8">>) @@
  (<<" ", "U+266F", "U+266F">> :> <<"d", "5", "9", "4", "f", "8", "8", "5">>) @@
  (<<"-", " ", " ">> :> <<"4", "c", "3", "7", "2", "f", "a", "f">>) @@
  (<<"-", " ", "-">> :> <<"e", "2", "e", "e", "1", "3", "3", "2">>) @@
  (<<"-", " ", "U+266F">> :> <<"4", "b", "9", "0", "c", "7", "9", "3">>) @@
  (<<"-", "-", " ">> :> <<"1", "6", "9", "b", "a", "e", "d", "c">>) @@
  (<<"-", "-", "-">> :> <<"5", "8", "b", "6", "3", "e", "2", "7">>) @@
  (<<"-", "-", "U+266F">> :> <<"5", "0", "5", "4", "f", "e", "7", "6">>) @@
  (<<"-", "U+266F", " ">> :> <<"0", "4", "8", "9", "d", "f", "9", "8">>) @@
  (<<"-", "U+266F", "-">> :> <<"f", "e", "2", "6", "3", "4", "5", "f">>) @@
  (<<"-", "U+266F", "U+266F">> :> <<"4", "d", "0", "4", "f", "9", "4", "9">>) @@
  (<<"U+266F", " ", " ">> :> <<"2", "5", "1", "4", "1", "2", "0", "3">>) @@
  (<<"U+266F", " ", "-">> :> <<"5", "b", "0", "0", "4", "1", "9", "d">>) @@
  (<<"U+266F", " ", "U+266F">> :> <<"f", "6", "3", "7", "6", "0", "6", "7">>) @@
  (<<"U+266F", "-", " ">> :> <<"6", "7", "e", "0", "3", "b", "0", "9">>) @@
  (<<"U+266F", "-", "-">> :> <<"3", "b", "b", "4", "4", "5", "6", "0">>) @@
  (<<"U+266F", "-", "U+266F">> :> <<"6", "e", "3", "c", "5", "f", "e", "0">>) @@
  (<<"U+266F", "U+266F", " ">> :> <<"7", "0", "2", "b", "1", "3", "8", "9">>) @@
  (<<"U+266F", "U+266F", "-">> :> <<"c", "c", "3", "8", "1", "a", "8", "d">>) @@
  (<<"U+266F", "U+266F", "U+266F">> :> <<"0", "f", "7", "7", "9", "9", "a", "d">>) @@
  (<<" ", " ", " ", " ">> :> <<"6", "5", "a", "e", "a", "9", "8", "c">>) @@
  (<<" ", " ", " ", "-">> :> <<"d", "5", "d", "b", "8", "c", "e", "d">>) @@
  (<<" ", " ", " ", "U+266F">> :> <<"d", "d", "c", "0", "0", "b", "a", "3">>) @@
  (<<" ", " ", "-", " ">> :> <<"f", "d", "0", "1", "8", "f", "4", "e">>) @@
  (<<" ", " ", "-", "-">> :> <<"5", "6", "6", "7", "0", "1", "3", "d">>) @@
  (<<" ", " ", "-", "U+266F">> :> <<"c", "f", "7", "1", "b", "0", "c", "1">>) @@
  (<<" ", " ", "U+266F", " ">> :> <<"2", "5", "e", "9", "e", "1", "b", "b">>) @@
  (<<" ", " ", "U+266F", "-">> :> <<"a", "2", "a", "2", "c", "5", "8", "d">>) @@
  (<<" ", " ", "U+266F", "U+266F">> :> <<"8", "8", "8", "b", "5", "2", "1", "9">>) @@
  (<<" ", "-", " ", " ">> :> <<"7", "f", "9", "6", "c", "e", "f", "9">>) @@
  (<<" ", "-", " ", "-">> :> <<"7", "f", "9", "4", "7", "e", "d", "e">>) @@
  (<<" ", "-", " ", "U+266F">> :> <<"8", "e", "f", "5", "5", "7", "a", "7">>) @@
  (<<" ", "-", "-", " ">> :> <<"f", "6", "e", "8", "e", "4", "5", "0">>) @@
  (<<" ", "-", "-", "-">> :> <<"d", "1", "3", "b", "8", "4", "f", "d">>) @@
  (<<" ", "-", "-", "U+266F">> :> <<"d", "3", "c", "7", "3", "b", "f", "c">>) @@
  (<<" ", "-", "U+266F", " ">> :> <<"7", "a", "c", "6", "2", "d", "a", "f">>) @@
  (<<" ", "-", "U+266F", "-">> :> <<"e", "7", "8", "8", "a", "5", "8", "4">>) @@
  (<<" ", "-", "U+266F", "U+266F">> :> <<"0", "c", "f", "9", "a", "b", "c", "4">>) @@
  (<<" ", "U+266F", " ", " ">> :> <<"b", "4", "5", "2", "c", "b", "6", "d">>) @@
  (<<" ", "U+266F", " ", "-">> :> <<"2", "0", "1", "1", "a", "7", "0", "c">>) @@
  (<<" ", "U+266F", " ", "U+266F">> :> <<"f", "6", "1", "a", "0", "7", "0", "0">>) @@
  (<<" ", "U+266F", "-", " ">> :> <<"3", "7", "5", "b", "e", "5", "d", "5">>) @@
  (<<" ", "U+266F", "-", "-">> :> <<"d", "7", "3", "2", "e", "c", "0", "f">>) @@
  (<<" ", "U+266F", "-", "U+266F">> :> <<"3", "c", "9", "7", "6", "c", "7", "d">>) @@
  (<<" ", "U+266F", "U+266F", " ">> :> <<"9", "7", "8", "1", "2", "d", "2", "f">>) @@
  (<<" ", "U+266F", "U+266F", "-">> :> <<"8", "7", "7", "8", "0", "b", "0", "5">>) @@
  (<<" ", "U+266F", "U+266F", "U+266F">> :> <<"3", "6", "5", "8", "2", "7", "6", "1">>) @@
  (<<"-", " ", " ", " ">> :> <<"0", "3", "4", "f", "7", "0", "1", "5">>) @@
  (<<"-", " ", " ", "-">> :> <<"1", "6", "e", "9", "3", "5", "1", "d">>) @@
  (<<"-", " ", " ", "U+266F">> :> <<"9", "2", "8", "9", "c", "7", "5", "2">>) @@
  (<<"-", " ", "-", " ">> :> <<"d", "0", "f", "0", "9", "6", "8", "5">>) @@
  (<<"-", " ", "-", "-">> :> <<"3", "3", "4", "9", "8", "b", "1", "7">>) @@
  (<<"-", " ", "-", "U+266F">> :> <<"8", "3", "0", "3", "0", "5", "b", "c">>) @@
  (<<"-", " ", "U+266F", " ">> :> <<"e", "4", "d", "0", "d", "3", "a", "4">>) @@
  (<<"-", " ", "U+266F", "-">> :> <<"5", "7", "d", "a", "c", "a", "1", "4">>) @@
  (<<"-", " ", "U+266F", "U+266F">> :> <<"1", "6", "c", "e", "e", "c", "e", "4">>) @@
  (<<"-", "-", " ", " ">> :> <<"2", "d", "e", "1", "9", "3", "0", "b">>) @@
  (<<"-", "-", " ", "-">> :> <<"2", "d", "1", "9", "2", "8", "2", "b">>) @@
  (<<"-", "-", " ", "U+266F">> :> <<"2", "a", "b", "8", "c", "d", "3", "d">>) @@
  (<<"-", "-", "-", " ">> :> <<"0", "c", "6", "e", "3", "8", "2", "6">>) @@
  (<<"-", "-", "-", "-">> :> <<"a", "f", "8", "2", "0", "7", "a", "e">>) @@
  (<<"-", "-", "-", "U+266F">> :> <<"2", "e", "c", "9", "c", "5", "d", "a">>) @@
  (<<"-", "-", "U+266F", " ">> :> <<"6", "1", "2", "d", "6", "9", "a", "8">>) @@
  (<<"-", "-", "U+266F", "-">> :> <<"3", "6", "1", "e", "e", "e", "7", "c">>) @@
  (<<"-", "-", "U+266F", "U+266F">> :> <<"9", "5", "7", "a", "8", "c", "e", "9">>) @@
  (<<"-", "U+266F", " ", " ">> :> <<"6", "b", "a", "1", "8", "7", "c", "1">>) @@
  (<<"-", "U+266F", " ", "-">> :> <<"4", "7", "1", "f", "1", "6", "1", "9">>) @@
  (<<"-", "U+266F", " ", "U+266F">> :> <<"f", "b", "8", "6", "e", "2", "e", "9">>) @@
  (<<"-", "U+266F", "-", " ">> :> <<"1", "0", "7", "b", "e", "8", "7", "3">>) @@
  (<<"-", "U+266F", "-", "-">> :> <<"e", "0", "6", "a", "3", "e", "5", "a">>) @@
  (<<"-", "U+266F", "-", "U+266F">> :> <<"a", "9", "9", "2", "9", "4", "a", "b">>) @@
  (<<"-", "U+266F", "U+266F", " ">> :> <<"f", "0", "f", "0", "4", "f", "e", "c">>) @@
  (<<"-", "U+266F", "U+266F", "-">> :> <<"a", "a", "d", "7", "6", "c", "d", "3">>) @@
  (<<"-", "U+266F", "U+266F", "U+266F">> :> <<"c", "8", "8", "e", "e", "c", "f", "0">>) @@
  (<<"U+266F", " ", " ", " ">> :> <<"d", "f", "4", "7", "0", "3", "5", "a">>) @@
  (<<"U+266F", " ", " ", "-">> :> <<"4", "e", "1", "9", "7", "9", "e", "0">>) @@
  (<<"U+266F", " ", " ", "U+266F">> :> <<"2", "0", "3", "1", "b", "6", "a", "7">>) @@
  (<<"U+266F", " ", "-", " ">> :> <<"c", "a", "5", "6", "0", "2", "f", "7">>) @@
  (<<"U+266F", " ", "-", "-">> :> <<"6", "3", "0", "a", "1", "2", "f", "3">>) @@
  (<<"U+266F", " ", "-", "U+266F">> :> <<"2", "b", "f", "6", "f", "b", "f", "1">>) @@
  (<<"U+266F", " ", "U+266F", " ">> :> <<"8", "a", "b", "4", "8", "6", "a", "a">>) @@
  (<<"U+266F", " ", "U+266F", "-">> :> <<"b", "6", "a", "3", "4", "c", "b", "3">>) @@
  (<<"U+266F", " ", "U+266F", "U+266F">> :> <<"d", "c", "e", "f", "4", "d", "f", "f">>) @@
  (<<"U+266F", "-", " ", " ">> :> <<"b", "a", "b", "4", "a", "6", "2", "6">>) @@
  (<<"U+266F", "-", " ", "-">> :> <<"3", "b", "9", "4", "7", "b", "c", "5">>) @@
  (<<"U+266F", "-", " ", "U+266F">> :> <<"9", "5", "e", "1", "2", "e", "4", "e">>) @@
  (<<"U+266F", "-", "-", " ">> :> <<"6", "b", "3", "d", "7", "8", "f", "c">>) @@
  (<<"U+266F", "-", "-", "-">> :> <<"a", "d", "b", "e", "a", "2", "b", "5">>) @@
  (<<"U+266F", "-", "-", "U+266F">> :> <<"d", "e", "4", "1", "d", "e", "9", "f">>) @@
  (<<"U+266F", "-", "U+266F", " ">> :> <<"4", "d", "b", "7", "8", "d", "a", "e">>) @@
  (<<"U+266F", "-", "U+266F", "-">> :> <<"2", "3", "b", "1", "3", "e", "3", "f">>) @@
  (<<"U+266F", "-", "U+266F", "U+266F">> :> <<"8", "7", "c", "f", "7", "d", "f", "a">>) @@
  (<<"U+266F", "U+266F", " ", " ">> :> <<"6", "d", "5", "f", "e", "6", "e", "a">>) @@
  (<<"U+266F", "U+266F", " ", "-">> :> <<"3", "0", "8", "e", "8", "1", "2", "4">>) @@
  (<<"U+266F", "U+266F", " ", "U+266F">> :> <<"8", "5", "7", "4", "f", "4", "1", "d">>) @@
  (<<"U+266F", "U+266F", "-", " ">> :> <<"4", "4", "b", "6", "7", "0", "2", "9">>) @@
  (<<"U+266F", "U+266F", "-", "-">> :> <<"a", "b", "0", "e", "c", "7", "f", "0">>) @@
  (<<"U+266F", "U+266F", "-", "U+266F">> :> <<"e", "0", "3", "4", "9", "9", "6", "b">>) @@
  (<<"U+266F", "U+266F", "U+266F", " ">> :> <<"4", "5", "b", "6", "c", "9", "0", "0">>) @@
  (<<"U+266F", "U+266F", "U+266F", "-">> :> <<"8", "e", "0", "6", "9", "a", "1", "4">>) @@
  (<<"U+266F", "U+266F", "U+266F", "U+266F">> :> <<"8", "c", "4", "3", "e", "3", "3", "b">>)

Sha1Hex8(s) == Sha1Hex8Table[s]

IdPrefix == << "i", "d", "-" >>

make_id_no_fallback(name) == norm(name)

make_id(name) ==
  LET nid == norm(name)
  IN  IF nid # << >> THEN nid ELSE IdPrefix \o Sha1Hex8(name)

(***************************************************************************)
(* Input files of the build stage                                          *)
(***************************************************************************)

Str_CSharpSym == << "C", "#" >>
Str_CSharpWord == << "C", " ", "s", "h", "a", "r", "p" >>
Str_CSharpId == << "c", "-", "s", "h", "a", "r", "p" >>
Str_CSharp2 == << "C", " ", "s", "h", "a", "r", "p", "2" >>
Str_CppSym == << "C", "+", "+" >>
Str_CppWord == << "c", " ", "p", "l", "u", "s", " ", "p", "l", "u", "s" >>
Str_CppWord2 == Str_CppWord \o << "2" >>
Str_CppWord23 == Str_CppWord \o << "2", "3" >>
Str_Hyphen == << "-" >>

Ext_cs == << ".", "c", "s" >>
Ext_csx == << ".", "c", "s", "x" >>
Ext_cpp == << ".", "c", "p", "p" >>
Ext_cc == << ".", "c", "c" >>

Str_csharp == << "c", "s", "h", "a", "r", "p" >>
Str_cpp == << "c", "p", "p" >>
Str_oo == << "o", "o" >>
Str_fp == << "f", "p" >>
Str_static == << "s", "t", "a", "t", "i", "c" >>
Str_ms == << "m", "s" >>
Str_2000 == << "2", "0", "0", "0" >>
Str_1985 == << "1", "9", "8", "5" >>
Str_home == << "c", ".", "m", "s" >>

\* languages.yml: name -> meta (the keys of a mapping are distinct)
LinguistEntries ==
  { [ name |-> Str_CSharpSym, extensions |-> << Ext_csx, Ext_cs >>,
      aliases |-> << Str_csharp >> ],
    [ name |-> Str_CppSym, extensions |-> << Ext_cpp, Ext_cc >>,
      aliases |-> << Str_cpp >> ],
    [ name |-> Str_CppWord2, extensions |-> << >>, aliases |-> << >> ],
    [ name |-> Str_CSharp2, extensions |-> << Ext_cs >>, aliases |-> << >> ] }

\* wikipedia_lang_titles.json: sorted(titles), each stripped and non-empty
WikipediaTitles ==
  { Str_CSharpWord, Str_CSharp2, Str_CppSym, Str_CppWord, Str_CppWord2,
    Str_CppWord23 }

\* esolang_language_titles.json: sorted(set(titles))
EsolangTitles == { Str_Hyphen, Str_CSharpId, Str_CppWord23 }

(***************************************************************************)
(* The knowledge base: scan_local_pldb and parse_pldb_file                 *)
(*                                                                         *)
(* A file of the knowledge base is its path, as file_path.as_posix() gives *)
(* it, and the properties parse_blocks returns for its text: a function    *)
(* from the lower-case keys to the lists of their non-empty values.        *)
(***************************************************************************)

\* sub in s
Contains(s, sub) ==
  \E i \in 1..(Len(s) - Len(sub) + 1) : SubSeq(s, i, i + Len(sub) - 1) = sub

\* s.startswith(prefix)
StartsWith(s, prefix) == Len(s) >= Len(prefix) /\ Upto(s, Len(prefix)) = prefix

\* the position pathlib cuts the suffix of a file name at: the last dot, when
\* it is neither the first nor the last character; 0 if there is none
SuffixAt(name) ==
  LET dots == { i \in DOMAIN name : name[i] = "." }
      i == IF dots = { } THEN 0 ELSE CHOOSE d \in dots : \A e \in dots : e <= d
  IN  IF 1 < i /\ i < Len(name) THEN i ELSE 0

\* file_path.name: what follows the last "/"
PathName(pstr) ==
  LET slashes == { i \in DOMAIN pstr : pstr[i] = "/" }
      i == IF slashes = { } THEN 0
           ELSE CHOOSE d \in slashes : \A e \in slashes : e <= d
  IN  From(pstr, i + 1)

\* file_path.suffix
PathSuffix(pstr) ==
  LET name == PathName(pstr)
  IN  IF SuffixAt(name) = 0 THEN << >> ELSE From(name, SuffixAt(name))

\* file_path.stem
PathStem(pstr) ==
  LET name == PathName(pstr)
  IN  IF SuffixAt(name) = 0 THEN name ELSE Upto(name, SuffixAt(name) - 1)

BAD_PATH_WORDS ==
  { << "a", "u", "t", "h", "o", "r", "s" >>,
    << "a", "u", "t", "h", "o", "r" >>, << "b", "u", "i", "l", "d" >>,
    << "b", "o", "o", "k" >>, << "b", "o", "o", "k", "s" >>,
    << "m", "e", "a", "s", "u", "r", "e" >>,
    << "m", "e", "a", "s", "u", "r", "e", "s" >>,
    << "m", "e", "t", "r", "i", "c" >>,
    << "m", "e", "t", "r", "i", "c", "s" >>,
    << "s", "c", "r", "i", "p", "t" >>,
    << "s", "c", "r", "i", "p", "t", "s" >>,
    << "r", "e", "a", "d", "m", "e" >>, << "d", "a", "t", "a" >>,
    << "c", "s", "v" >>, << "t", "s", "v" >>, << "j", "s", "o", "n" >>,
    << "a", "s", "s", "e", "t" >>, << "a", "s", "s", "e", "t", "s" >> }

BAD_NAME_WORDS ==
  { << "a", "u", "t", "h", "o", "r", "s" >>,
    << "a", "u", "t", "h", "o", "r" >>, << "b", "u", "i", "l", "d" >>,
    << "b", "o", "o", "k" >>, << "b", "o", "o", "k", "s" >>,
    << "m", "e", "a", "s", "u", "r", "e" >>,
    << "m", "e", "a", "s", "u", "r", "e", "s" >>,
    << "m", "e", "t", "r", "i", "c" >>,
    << "m", "e", "t", "r", "i", "c", "s" >>,
    << "r", "e", "a", "d", "m", "e" >>, << "c", "s", "v" >>,
    << "t", "s", "v" >>, << "j", "s", "o", "n" >> }

LANG_PROPS_HINTS ==
  { "paradigm", "paradigms", "typing", "type system", "influenced by",
    "influenced", "influenced-by", "designed by", "designed",
    "filename extension", "file extension", "file extensions", "extensions",
    "hello world", "hello-world", "hello_world", "hello", "clocextensions" }

\* \w of the re module on a str: the letters outside ASCII are word
\* characters too
IsUnicodeWord(c) == IsWord(c) \/ c \in { "U+00E9" }

\* BAD_PATH_TOKENS.search(s): "/", one of the words in any case, "/"
BAD_PATH_TOKENS(s) ==
  \E w \in BAD_PATH_WORDS :
    \E i \in 1..(Len(s) - Len(w) - 1) :
      /\ s[i] = "/"
      /\ Lower(SubSeq(s, i + 1, i + Len(w))) = w
      /\ s[i + Len(w) + 1] = "/"

\* BAD_NAME_TOKENS.search(s): one of the words in any case at the start of s,
\* and a word boundary after it
BAD_NAME_TOKENS(s) ==
  \E w \in BAD_NAME_WORDS :
    /\ Len(s) >= Len(w)
    /\ Lower(Upto(s, Len(w))) = w
    /\ IF Len(s) = Len(w) THEN TRUE ELSE ~IsUnicodeWord(s[Len(w) + 1])

\* props.get(key, [])
PropsGet(props, key) == IF key \in DOMAIN props THEN props[key] ELSE << >>

\* the first value, stripped, of the first of the keys that has a value
RECURSIVE FirstProp(_, _)
FirstProp(props, keys) ==
  IF keys = << >> THEN << >>
  ELSE IF PropsGet(props, Head(keys)) # << >>
       THEN Strip(PropsGet(props, Head(keys))[1])
       ELSE FirstProp(props, Tail(keys))

\* the values of the keys, one list after the other
RECURSIVE PropsOf(_, _)
PropsOf(props, keys) ==
  IF keys = << >> THEN << >>
  ELSE PropsGet(props, Head(keys)) \o PropsOf(props, Tail(keys))

IsStar(c) == c = "*"

\* the characters re.sub(r"[^.\w+-]", "", tok) keeps
IsExtTokenChar(c) == IsUnicodeWord(c) \/ c \in { ".", "+", "-" }

_norm_ext_token(tok) ==
  IF tok = << >> THEN << >>
  ELSE LET t1 == LStripBy(IsStar, Strip(tok))
           t2 == IF t1 # << >> /\ t1[1] = "." THEN t1 ELSE << "." >> \o t1
       IN  SelectSeq(Lower(t2), IsExtTokenChar)

\* the separators of re.split(r"[\s,;/]+", val)
IsExtValueSep(c) == IsSpace(c) \/ c \in { ",", ";", "/" }

CLOC_KEYS == << "clocextensions", "cloc extensions", "cloc-ext", "cloc_ext" >>

EXT_KEYS ==
  << "filename extension", "file extension", "file extensions", "extensions" >>

_collect_pldb_extensions(props) ==
  LET vals == PropsOf(props, CLOC_KEYS) \o PropsOf(props, EXT_KEYS)
      parts == UNION { Range(SplitRuns(IsExtValueSep, vals[i])) : i \in DOMAIN vals }
      exts == { _norm_ext_token(p) : p \in parts }
  IN  SortStrings({ e \in exts : Len(e) > 1 })

ALIAS_KEYS ==
  << "alias", "aliases", "aka", "also known as", "short name", "short names" >>

\* the separators of re.split(r"[|,;/]", val)
IsAliasSep(c) == c \in { "|", ",", ";", "/" }

RECURSIVE SplitEach(_, _)
\* re.split of s at every separator character
SplitEach(IsSep(_), s) ==
  IF \E i \in DOMAIN s : IsSep(s[i])
  THEN LET n == CHOOSE i \in DOMAIN s :
                  IsSep(s[i]) /\ \A j \in 1..(i - 1) : ~IsSep(s[j])
       IN  << Upto(s, n - 1) >> \o SplitEach(IsSep, From(s, n + 1))
  ELSE << s >>

_collect_aliases(props) ==
  LET vals == PropsOf(props, ALIAS_KEYS)
      Of(val) ==
        IF \E i \in DOMAIN val : val[i] \in { ",", "|", ";" }
        THEN { Strip(x) : x \in Range(SplitEach(IsAliasSep, val)) }
        ELSE { Strip(val) }
      aliases == UNION { Of(vals[i]) : i \in DOMAIN vals }
  IN  SortStrings({ a \in aliases : a # << >> /\ ~BAD_NAME_TOKENS(a) })

\* IS_CONCEPT
IS_CONCEPT(pstr) ==
  \/ Contains(pstr, << "/", "c", "o", "n", "c", "e", "p", "t", "s", "/" >>)
  \/ StartsWith(pstr, << "p", "l", "d", "b", "/", "c", "o", "n", "c", "e", "p", "t", "s", "/" >>)

\* name/title, or the stem of the file name
PldbName(props, pstr) ==
  LET name == FirstProp(props, << "name", "title" >>)
  IN  IF name # << >> THEN name ELSE Strip(PathStem(pstr))

SPACE == << " " >>

SEMI == << ";", " " >>

\* the record of a file that passed the filters
PldbRecord(props, pstr) ==
  [ name |-> PldbName(props, pstr),
    aliases |-> _collect_aliases(props),
    first_appeared |->
      FirstProp(props, << "appeared", "first appeared", "first-appeared" >>),
    homepage |-> FirstProp(props, << "homepage", "home page", "url", "urls" >>),
    paradigms |-> Join(SEMI, PropsOf(props, << "paradigm", "paradigms" >>)),
    typing |-> Join(SEMI, PropsOf(props, << "typing", "type system" >>)),
    designed_by |-> Join(SEMI, PropsOf(props, << "designed by", "designed" >>)),
    influenced_by |->
      Join(SEMI, PropsOf(props, << "influenced by", "influenced", "influenced-by" >>)),
    hello_world |->
      PropsOf(props, << "hello world", "hello-world", "hello_world", "hello" >>) # << >>,
    extensions |-> Join(SPACE, _collect_pldb_extensions(props)) ]

\* parse_pldb_file that skips the filter of the paths
parse_pldb_file_any_path(props, pstr) ==
  LET is_lang == IS_CONCEPT(pstr) \/ (DOMAIN props \cap LANG_PROPS_HINTS # { })
      name == PldbName(props, pstr)
  IN  IF ~is_lang THEN { }
      ELSE IF name = << >> \/ BAD_NAME_TOKENS(name) THEN { }
      ELSE { PldbRecord(props, pstr) }

\* parse_pldb_file: the set of the record it returns, empty when it returns {}
parse_pldb_file(props, pstr) ==
  LET is_lang == IS_CONCEPT(pstr) \/ (DOMAIN props \cap LANG_PROPS_HINTS # { })
      name == PldbName(props, pstr)
  IN  IF BAD_PATH_TOKENS(<< "/" >> \o pstr \o << "/" >>) THEN { }
      ELSE IF ~is_lang THEN { }
      ELSE IF name = << >> \/ BAD_NAME_TOKENS(name) THEN { }
      ELSE { PldbRecord(props, pstr) }

PLDB_SUFFIXES ==
  { << ".", "p", "l", "d", "b" >>, << ".", "s", "c", "r", "o", "l", "l" >> }

\* the files of the knowledge base rglob("*") yields
PldbFiles ==
  { [ path |-> << "p", "l", "d", "b", "/", "c", "o", "n", "c", "e", "p", "t", "s", "/", "c", "-", "s", "h", "a", "r", "p", ".", "s", "c", "r", "o", "l", "l" >>,
      props |-> ("aliases" :> << << "c", "s", "h", "a", "r", "p" >> >>) @@
                ("appeared" :> << << "2", "0", "0", "0" >> >>) @@
                ("homepage" :> << << "c", ".", "m", "s" >> >>) @@
                ("paradigm" :> << << "o", "o" >> >>) @@
                ("typing" :> << << "s", "t", "a", "t", "i", "c" >> >>) @@
                ("designed by" :> << << "m", "s" >> >>) @@
                ("influenced by" :> << << "c", "p", "p" >> >>) @@
                ("hello world" :> << << "h", "i" >> >>) @@
                ("clocextensions" :> << << "c", "s", " ", "c", "s", "x" >> >>) ],
    [ path |-> << "p", "l", "d", "b", "/", "c", "o", "n", "c", "e", "p", "t", "s", "/", "c", "s", "h", "a", "r", "p", ".", "s", "c", "r", "o", "l", "l" >>,
      props |-> ("name" :> << << "C", "#" >> >>) @@
                ("paradigms" :> << << "f", "p" >> >>) @@
                ("hello world" :> << >>) ],
    [ path |-> << "p", "l", "d", "b", "/", "l", "a", "n", "g", "s", "/", "c", "p", "p", ".", "p", "l", "d", "b" >>,
      props |-> ("title" :> << << "c", " ", "p", "l", "u", "s", " ", "p", "l", "u", "s" >> >>) @@
                ("aka" :> << << "c", "p", "p" >> >>) @@
                ("first appeared" :> << << "1", "9", "8", "5" >> >>) @@
                ("type system" :> << << "s", "t", "a", "t", "i", "c" >> >>) @@
                ("hello" :> << << "h", "i" >> >>) @@
                ("file extension" :> << << "*", ".", "c", "p", "p" >> >>) ],
    [ path |-> << "p", "l", "d", "b", "/", "l", "a", "n", "g", "s", "/", "c", "p", "p", "2", ".", "P", "L", "D", "B" >>,
      props |-> ("name" :> << << "c", " ", "p", "l", "u", "s", " ", "p", "l", "u", "s", "2" >> >>) @@
                ("paradigm" :> << << "o", "o" >> >>) @@
                ("extensions" :> << << "c", "c" >> >>) ],
    [ path |-> << "/", "s", "r", "v", "/", "c", "o", "n", "c", "e", "p", "t", "s", "/", "c", " ", "p", "l", "u", "s", " ", "p", "l", "u", "s", "2", "3", ".", "s", "c", "r", "o", "l", "l" >>,
      props |-> ("first-appeared" :> << << "2", "0", "0", "0" >> >>) @@
                ("paradigms" :> << << "f", "p" >> >>) @@
                ("hello_world" :> << << "h", "i" >> >>) @@
                ("file extensions" :> << << "*", ".", "h", ".", "i", "n" >> >>) ],
    [ path |-> << "p", "l", "d", "b", "/", "a", "u", "t", "h", "o", "r", "s", "/", "k", "n", "u", "t", "h", ".", "s", "c", "r", "o", "l", "l" >>,
      props |-> ("name" :> << << "K", "n", "u", "t", "h" >> >>) @@
                ("paradigm" :> << << "o", "o" >> >>) ],
    [ path |-> << "p", "l", "d", "b", "/", "c", "o", "n", "c", "e", "p", "t", "s", "/", "S", "c", "r", "i", "p", "t", "s", "/", "a", "w", "k", ".", "s", "c", "r", "o", "l", "l" >>,
      props |-> ("typing" :> << << "s", "t", "a", "t", "i", "c" >> >>) ],
    [ path |-> << "p", "l", "d", "b", "/", "c", "o", "n", "c", "e", "p", "t", "s", "/", "j", "s", "o", "n", ".", "s", "c", "r", "o", "l", "l" >>,
      props |-> ("paradigm" :> << << "o", "o" >> >>) ],
    [ path |-> << "p", "l", "d", "b", "/", "c", "o", "n", "c", "e", "p", "t", "s", "/", "t", "o", "o", "l", "s", ".", "s", "c", "r", "o", "l", "l" >>,
      props |-> ("name" :> << << "B", "u", "i", "l", "d", "-", "t", "o", "o", "l", "s" >> >>) @@
                ("typing" :> << << "s", "t", "a", "t", "i", "c" >> >>) ],
    [ path |-> << "p", "l", "d", "b", "/", "m", "i", "s", "c", "/", "n", "o", "t", "e", "s", ".", "s", "c", "r", "o", "l", "l" >>,
      props |-> ("name" :> << << "N", "o", "t", "e", "s" >> >>) @@
                ("homepage" :> << << "c", ".", "m", "s" >> >>) ],
    [ path |-> << "p", "l", "d", "b", "/", "c", "o", "n", "c", "e", "p", "t", "s", "/", "d", ".", "t", "x", "t" >>,
      props |-> ("name" :> << << "D" >> >>) @@
                ("paradigm" :> << << "o", "o" >> >>) ] }

\* the records of the files with the suffix .pldb or .scroll, in any case,
\* that parse_pldb_file accepts
scan_local_pldb(files) ==
  UNION { parse_pldb_file(f.props, f.path) :
            f \in { g \in files : Lower(PathSuffix(g.path)) \in PLDB_SUFFIXES } }

\* what scan_local_pldb returns for the knowledge base
PldbRecords == scan_local_pldb(PldbFiles)

(***************************************************************************)
(* Rows                                                                    *)
(*                                                                         *)
(* source_flags and the ";"-joined strings built from it are sequences of  *)
(* source tags; the other text columns are strings. The columns types,     *)
(* evidence_urls, notes, in_<source> and has_<x> are left out.             *)
(***************************************************************************)

SourceTags == { "esolang", "linguist", "pldb", "wikipedia" }

\* the order of the tags under sorted()
TagRank(t) ==
  CASE t = "esolang" -> 1
    [] t = "linguist" -> 2
    [] t = "pldb" -> 3
    [] t = "wikipedia" -> 4

\* the order in which main() appends the sources' rows
SourceRank(t) ==
  CASE t = "linguist" -> 1
    [] t = "wikipedia" -> 2
    [] t = "esolang" -> 3
    [] t = "pldb" -> 4

RECURSIVE SortTags(_)
SortTags(S) ==
  IF S = { } THEN << >>
  ELSE LET m == CHOOSE x \in S : \A y \in S : TagRank(x) <= TagRank(y)
       IN  << m >> \o SortTags(S \ { m })


\* " ".join(meta.get("extensions", []) or [])
LinguistRow(e) ==
  [ lang_id |-> make_id(e.name), canonical_name |-> e.name,
    source_flags |-> << "linguist" >>, extensions |-> Join(SPACE, e.extensions),
    first_appeared |-> << >>, homepage |-> << >>, paradigms |-> << >>,
    typing |-> << >>, designed_by |-> << >>, influenced_by |-> << >>,
    hello_world |-> FALSE, linguist_key |-> e.name ]

TitleRow(t, tag) ==
  [ lang_id |-> make_id(t), canonical_name |-> t,
    source_flags |-> << tag >>, extensions |-> << >>,
    first_appeared |-> << >>, homepage |-> << >>, paradigms |-> << >>,
    typing |-> << >>, designed_by |-> << >>, influenced_by |-> << >>,
    hello_world |-> FALSE, linguist_key |-> << >> ]

PldbRow(r) ==
  [ lang_id |-> make_id(r.name), canonical_name |-> r.name,
    source_flags |-> << "pldb" >>, extensions |-> r.extensions,
    first_appeared |-> r.first_appeared, homepage |-> r.homepage,
    paradigms |-> r.paradigms, typing |-> r.typing,
    designed_by |-> r.designed_by, influenced_by |-> r.influenced_by,
    hello_world |-> r.hello_world, linguist_key |-> << >> ]

AliasRowsOf(aliases, nid, tag) ==
  [ i \in DOMAIN aliases |-> [ alias |-> aliases[i], lang_id |-> nid, source |-> tag ] ]

(***************************************************************************)
(* Enrichment with the Linguist extensions                                 *)
(***************************************************************************)

\* the set of the whitespace-separated tokens of a string
Tokens(s) == Range(SplitSpace(s))

\* _merge_ext: " ".join(sorted((a | b) - {""}))
merge_ext(existing, extra) ==
  Join(SPACE, SortStrings(Tokens(existing) \cup Tokens(extra)))

\* the last position of a sequence that satisfies a test (a dict built by a
\* comprehension keeps the last value of a repeated key)
LastIndex(seq, Test(_)) ==
  CHOOSE i \in DOMAIN seq :
    Test(seq[i]) /\ \A j \in (i + 1)..Len(seq) : ~Test(seq[j])

enrich_extensions_from_linguist(df) ==
  LET IsLinguist(r) == "linguist" \in Range(r.source_flags)
      df_l == SelectSeq(df, IsLinguist)
      key_to_ext(k) ==
        IF \E i \in DOMAIN df_l : df_l[i].linguist_key = k
        THEN df_l[LastIndex(df_l, LAMBDA r : r.linguist_key = k)].extensions
        ELSE << >>
      name_to_key(n) ==
        df_l[LastIndex(df_l, LAMBDA r : r.canonical_name = n)].linguist_key
      linguist_names == { df_l[i].canonical_name : i \in DOMAIN df_l }
      id_to_key(x) ==
        df_l[LastIndex(df_l, LAMBDA r : r.lang_id = x)].linguist_key
      df_l_ids == { df_l[i].lang_id : i \in DOMAIN df_l }
      \* exact canonical name
      ByName(r) ==
        IF r.canonical_name \in linguist_names
        THEN LET k == name_to_key(r.canonical_name)
             IN  [ r EXCEPT !.linguist_key = k,
                            !.extensions = merge_ext(r.extensions, key_to_ext(k)) ]
        ELSE r
      \* normalized id
      ById(r) ==
        IF r.lang_id \in df_l_ids
        THEN LET k == id_to_key(r.lang_id)
             IN  [ r EXCEPT !.linguist_key = k,
                            !.extensions = merge_ext(r.extensions, key_to_ext(k)) ]
        ELSE r
      \* mark flags for enriched rows
      Mark(r) ==
        IF r.linguist_key # << >>
        THEN [ r EXCEPT !.source_flags =
                 SortTags(Range(r.source_flags) \cup { "linguist" }) ]
        ELSE r
  IN  [ i \in DOMAIN df |-> Mark(ById(ByName(df[i]))) ]

\* df["source_count"]: the number of tags in source_flags
WithSourceCount(df) ==
  [ i \in DOMAIN df |->
      [ lang_id |-> df[i].lang_id, canonical_name |-> df[i].canonical_name,
        source_flags |-> df[i].source_flags, extensions |-> df[i].extensions,
        first_appeared |-> df[i].first_appeared, homepage |-> df[i].homepage,
        paradigms |-> df[i].paradigms, typing |-> df[i].typing,
        designed_by |-> df[i].designed_by, influenced_by |-> df[i].influenced_by,
        hello_world |-> df[i].hello_world, linguist_key |-> df[i].linguist_key,
        source_count |-> Len(df[i].source_flags) ] ]

(***************************************************************************)
(* Merge helpers and the group-by                                          *)
(***************************************************************************)

\* A cell of a column: a string or a boolean (merge_first tells them apart
\* with isinstance).
StrCell(s) == [ kind |-> "str", val |-> s ]

BoolCell(b) == [ kind |-> "bool", val |-> b ]

IsNonEmptyStr(x) == x.kind = "str" /\ Strip(x.val) # << >>

IsBool(x) == x.kind = "bool"

\* the flags of the first row only
merge_flags_first(col) == IF col = << >> THEN << >> ELSE col[1]

\* ";".join(sorted(set(";".join(col).split(";"))))
merge_flags(col) == SortTags(UNION { Range(col[i]) : i \in DOMAIN col })

merge_first_last(col) ==
  LET vals == SelectSeq(col, LAMBDA x : IsNonEmptyStr(x) \/ IsBool(x))
  IN  IF \E i \in DOMAIN vals : IsNonEmptyStr(vals[i])
      THEN vals[LastIndex(vals, IsNonEmptyStr)].val
      ELSE IF \E i \in DOMAIN vals : IsBool(vals[i])
      THEN vals[LastIndex(vals, IsBool)].val
      ELSE << >>

FirstIndex(seq, Test(_)) ==
  CHOOSE i \in DOMAIN seq : Test(seq[i]) /\ \A j \in 1..(i - 1) : ~Test(seq[j])

merge_first(col) ==
  LET vals == SelectSeq(col, LAMBDA x : IsNonEmptyStr(x) \/ IsBool(x))
  IN  \* prefer non-empty strings; allow booleans
      IF \E i \in DOMAIN vals : IsNonEmptyStr(vals[i])
      THEN vals[FirstIndex(vals, IsNonEmptyStr)].val
      ELSE IF \E i \in DOMAIN vals : IsBool(vals[i])
      THEN vals[FirstIndex(vals, IsBool)].val
      ELSE << >>

merge_space_unsorted(col) ==
  LET vals == SelectSeq(col, LAMBDA x : Strip(x) # << >>)
  IN  IF vals = << >> THEN << >> ELSE Join(SPACE, SplitSpace(Join(SPACE, vals)))

merge_space(col) ==
  LET vals == SelectSeq(col, LAMBDA x : Strip(x) # << >>)
  IN  IF vals = << >> THEN << >>
      ELSE Join(SPACE, SortStrings(Tokens(Join(SPACE, vals))))

RECURSIVE MaxOf(_)
MaxOf(col) == IF Len(col) = 1 THEN col[1] ELSE Max(Head(col), MaxOf(Tail(col)))

StrCol(g, f) == [ i \in DOMAIN g |-> StrCell(g[i][f]) ]

\* agg: one merged row from the rows of a group, in their order in the frame
agg(key, g) ==
  [ lang_id |-> key,
    canonical_name |-> merge_first(StrCol(g, "canonical_name")),
    source_flags |-> merge_flags([ i \in DOMAIN g |-> g[i].source_flags ]),
    extensions |-> merge_space([ i \in DOMAIN g |-> g[i].extensions ]),
    first_appeared |-> merge_first(StrCol(g, "first_appeared")),
    homepage |-> merge_first(StrCol(g, "homepage")),
    paradigms |-> merge_first(StrCol(g, "paradigms")),
    typing |-> merge_first(StrCol(g, "typing")),
    designed_by |-> merge_first(StrCol(g, "designed_by")),
    influenced_by |-> merge_first(StrCol(g, "influenced_by")),
    hello_world |-> merge_first([ i \in DOMAIN g |-> BoolCell(g[i].hello_world) ]),
    linguist_key |-> merge_first(StrCol(g, "linguist_key")),
    source_count |-> MaxOf([ i \in DOMAIN g |-> g[i].source_count ]) ]

\* the rows of a frame whose key is k, in the frame's order
GroupOf(df, keys, k) ==
  LET idx == { i \in DOMAIN df : keys[i] = k }
      RECURSIVE Pick(_)
      Pick(i) ==
        IF i > Len(df) THEN << >>
        ELSE (IF i \in idx THEN << df[i] >> ELSE << >>) \o Pick(i + 1)
  IN  Pick(1)

groupby_no_merge(df, keys) ==
  [ i \in DOMAIN df |-> agg(keys[i], << df[i] >>) ]

\* df.groupby(keys, as_index=False).agg(agg): one row for each key, the keys in
\* sorted order
groupby_agg(df, keys) ==
  LET ks == SortStrings(Range(keys))
  IN  [ n \in DOMAIN ks |-> agg(ks[n], GroupOf(df, keys, ks[n])) ]

(***************************************************************************)
(* Alias counts                                                            *)
(***************************************************************************)

\* DataFrame.drop_duplicates(): the first occurrence of every row is kept
drop_duplicates(seq) ==
  LET keep == { i \in DOMAIN seq : \A j \in 1..(i - 1) : seq[j] # seq[i] }
  IN  [ n \in 1..Cardinality(keep) |->
          seq[CHOOSE i \in keep : Cardinality({ j \in keep : j <= i }) = n] ]

\* the "self" alias rows of the catalog
SelfAliases(dfm) ==
  [ i \in DOMAIN dfm |->
      [ alias |-> dfm[i].canonical_name, lang_id |-> dfm[i].lang_id,
        source |-> "self" ] ]

\* df_alias.groupby("lang_id").size(), 0 for an identifier without alias row
alias_count_of(df_alias, id) ==
  Cardinality({ i \in DOMAIN df_alias : df_alias[i].lang_id = id })

\* dfm.merge(alias_counts, on="lang_id", how="left").fillna({"alias_count": 0})
WithAliasCount(dfm, df_alias) ==
  [ i \in DOMAIN dfm |->
      [ lang_id |-> dfm[i].lang_id, canonical_name |-> dfm[i].canonical_name,
        source_flags |-> dfm[i].source_flags, extensions |-> dfm[i].extensions,
        first_appeared |-> dfm[i].first_appeared, homepage |-> dfm[i].homepage,
        paradigms |-> dfm[i].paradigms, typing |-> dfm[i].typing,
        designed_by |-> dfm[i].designed_by,
        influenced_by |-> dfm[i].influenced_by,
        hello_world |-> dfm[i].hello_world,
        linguist_key |-> dfm[i].linguist_key,
        source_count |-> dfm[i].source_count,
        alias_count |-> alias_count_of(df_alias, dfm[i].lang_id) ] ]

(***************************************************************************)
(* Fuzzy collapse                                                          *)
(***************************************************************************)

\* The length of a longest common subsequence of a and b, row by row: row j
\* holds, at position i + 1, the value for a[1..i] and b[1..j]. (The tests
\* on the length of a row, always true, have the row evaluated before the
\* next step.)
LcsNextRow(a, c, prev) ==
  LET RECURSIVE Build(_, _)
      Build(i, acc) ==
        IF i > Len(a) THEN acc
        ELSE LET next == Append(acc, IF a[i] = c THEN prev[i] + 1
                                     ELSE Max(prev[i + 1], acc[i]))
             IN  IF Len(next) = i + 1 THEN Build(i + 1, next) ELSE << >>
  IN  Build(1, << 0 >>)

RECURSIVE LcsFrom(_, _, _, _)
LcsFrom(a, b, j, prev) ==
  IF j > Len(b) THEN prev[Len(a) + 1]
  ELSE LET row == LcsNextRow(a, b[j], prev)
       IN  IF Len(row) = Len(a) + 1 THEN LcsFrom(a, b, j + 1, row) ELSE 0

Lcs(a, b) == LcsFrom(a, b, 1, [ i \in 1..(Len(a) + 1) |-> 0 ])

FuzzThreshold == 94

\* fuzz.ratio(a, b) >= 94: the ratio is 100 * 2 * lcs / (len(a) + len(b)), the
\* normalized Indel similarity; in integers. (The floating-point value and
\* the quotient can only disagree where the quotient is exactly 94, which
\* needs len(a) + len(b) to be a multiple of 50.)
ratio_at_least(a, b, percent) ==
  200 * Lcs(a, b) >= percent * (Len(a) + Len(b))

Similar(a, b) == a[1] = b[1] /\ ratio_at_least(a, b, FuzzThreshold)

\* a collapse that remaps nothing
fuzzy_id_map_identity(dfm) == [ x \in { dfm[i].lang_id : i \in DOMAIN dfm } |-> x ]

\* a collapse that keeps the first identifier of every similar pair, whatever
\* the source tags of the two
fuzzy_id_map_keep_first(dfm) ==
  LET ids == [ i \in DOMAIN dfm |-> dfm[i].lang_id ]
      n == Len(ids)
      Step(m, i, j) ==
        IF Similar(ids[i], ids[j]) THEN [ m EXCEPT ![ids[j]] = ids[i] ] ELSE m
      RECURSIVE Loop(_, _, _)
      Loop(m, i, j) ==
        IF i > n THEN m
        ELSE IF j > n THEN Loop(m, i + 1, i + 2)
        ELSE Loop(Step(m, i, j), i, j + 1)
  IN  Loop([ x \in Range(ids) |-> x ], 1, 2)

\* a collapse that remaps the two identifiers of every similar pair to each
\* other
fuzzy_id_map_swap(dfm) ==
  LET ids == [ i \in DOMAIN dfm |-> dfm[i].lang_id ]
      n == Len(ids)
      Step(m, i, j) ==
        IF Similar(ids[i], ids[j])
        THEN [ m EXCEPT ![ids[j]] = ids[i], ![ids[i]] = ids[j] ]
        ELSE m
      RECURSIVE Loop(_, _, _)
      Loop(m, i, j) ==
        IF i > n THEN m
        ELSE IF j > n THEN Loop(m, i + 1, i + 2)
        ELSE Loop(Step(m, i, j), i, j + 1)
  IN  Loop([ x \in Range(ids) |-> x ], 1, 2)

\* The two loops over the pairs (i, j), i < j, of the catalog's identifiers:
\* of a similar pair the identifier with fewer source tags is remapped to the
\* other, the later one when the counts are equal.
fuzzy_id_map(dfm) ==
  LET ids == [ i \in DOMAIN dfm |-> dfm[i].lang_id ]
      n == Len(ids)
      flags_count(x) ==
        Len(dfm[CHOOSE k \in DOMAIN dfm : dfm[k].lang_id = x].source_flags)
      Step(m, i, j) ==
        LET a == ids[i]
            b == ids[j]
        IN  IF Similar(a, b)
            THEN LET sa == flags_count(a)
                     sb == flags_count(b)
                     keep == IF sa >= sb THEN a ELSE b
                     drop == IF sa >= sb THEN b ELSE a
                 IN  [ m EXCEPT ![drop] = keep ]
            ELSE m
      RECURSIVE Loop(_, _, _)
      Loop(m, i, j) ==
        IF i > n THEN m
        ELSE IF j > n THEN Loop(m, i + 1, i + 2)
        ELSE Loop(Step(m, i, j), i, j + 1)
  IN  Loop([ x \in Range(ids) |-> x ], 1, 2)

\* set(id_map.values()) != set(ids)
regroup_needed(id_map) ==
  { id_map[x] : x \in DOMAIN id_map } # DOMAIN id_map

\* dfm["lang_id"].map(id_map), then the group-by again
regroup(dfm, id_map) ==
  groupby_agg(dfm, [ i \in DOMAIN dfm |-> id_map[dfm[i].lang_id] ])

\* df_alias["lang_id"].map(lambda x: id_map.get(x, x)), then drop_duplicates()
remap_aliases(df_alias, id_map) ==
  drop_duplicates(
    [ i \in DOMAIN df_alias |->
        [ df_alias[i] EXCEPT !.lang_id =
            IF @ \in DOMAIN id_map THEN id_map[@] ELSE @ ] ])

(***************************************************************************)
(* The Pygments linker (augment_with_pygments.py)                          *)
(***************************************************************************)

\* what a lookup that finds nothing returns
None == << "None" >>

\* s.replace of the five typographic characters by their ASCII counterparts
AsciiPunct(c) ==
  IF c \in { "U+2013", "U+2014" } THEN "-"
  ELSE IF c = "U+2019" THEN "'"
  ELSE IF c \in { "U+201C", "U+201D" } THEN "\""
  ELSE c

normalize_token(s) ==
  LET s1 == Strip(s)
      s2 == [ i \in DOMAIN s1 |-> AsciiPunct(s1[i]) ]
  IN  SubSpaceRuns(s2, << " " >>)

\* the characters re.sub(r"[^a-z0-9+#.\- ]+", "", s) keeps
IsKeyChar(c) == c \in LowerLetters \cup Digits \cup { "+", "#", ".", "-", " " }

\* normalize_key that keeps the case of the letters
normalize_key_cased(s) ==
  Strip(SelectSeq(normalize_token(s), IsKeyChar))

normalize_key(s) ==
  Strip(SelectSeq(Lower(normalize_token(s)), IsKeyChar))

builtin_alias_table ==
  << "c", " ", "s", "h", "a", "r", "p" >> :> << "c", "s", "h", "a", "r", "p" >>
  @@ << "c", "-", "s", "h", "a", "r", "p" >> :> << "c", "s", "h", "a", "r", "p" >>
  @@ << "c", "#" >> :> << "c", "s", "h", "a", "r", "p" >>
  @@ << "f", " ", "s", "h", "a", "r", "p" >> :> << "f", "s", "h", "a", "r", "p" >>
  @@ << "f", "-", "s", "h", "a", "r", "p" >> :> << "f", "s", "h", "a", "r", "p" >>
  @@ << "f", "#" >> :> << "f", "s", "h", "a", "r", "p" >>
  @@ << "c", " ", "p", "l", "u", "s", " ", "p", "l", "u", "s" >> :> << "c", "p", "p" >>
  @@ << "c", "p", "l", "u", "s", "p", "l", "u", "s" >> :> << "c", "p", "p" >>
  @@ << "c", "+", "+" >> :> << "c", "p", "p" >>
  @@ << "c", "p", "p" >> :> << "c", "p", "p" >>
  @@ << "o", "b", "j", "e", "c", "t", "i", "v", "e", " ", "c" >> :> << "o", "b", "j", "e", "c", "t", "i", "v", "e", "-", "c" >>
  @@ << "o", "b", "j", "e", "c", "t", "i", "v", "e", "-", "c" >> :> << "o", "b", "j", "e", "c", "t", "i", "v", "e", "-", "c" >>
  @@ << "o", "b", "j", "-", "c" >> :> << "o", "b", "j", "e", "c", "t", "i", "v", "e", "-", "c" >>
  @@ << "o", "b", "j", "e", "c", "t", "i", "v", "e", " ", "c", "+", "+" >> :> << "o", "b", "j", "e", "c", "t", "i", "v", "e", "-", "c", "+", "+" >>
  @@ << "o", "b", "j", "e", "c", "t", "i", "v", "e", "-", "c", "+", "+" >> :> << "o", "b", "j", "e", "c", "t", "i", "v", "e", "-", "c", "+", "+" >>
  @@ << "o", "b", "j", "-", "c", "+", "+" >> :> << "o", "b", "j", "e", "c", "t", "i", "v", "e", "-", "c", "+", "+" >>
  @@ << "g", "o", "l", "a", "n", "g" >> :> << "g", "o" >>
  @@ << "j", "s" >> :> << "j", "a", "v", "a", "s", "c", "r", "i", "p", "t" >>
  @@ << "t", "s" >> :> << "t", "y", "p", "e", "s", "c", "r", "i", "p", "t" >>
  @@ << "v", "b", ".", "n", "e", "t" >> :> << "v", "b", "n", "e", "t" >>
  @@ << "v", "b" >> :> << "v", "b", "n", "e", "t" >>
  @@ << "v", "i", "s", "u", "a", "l", " ", "b", "a", "s", "i", "c" >> :> << "v", "b", "n", "e", "t" >>
  @@ << "o", "c", "a", "m", "l" >> :> << "o", "c", "a", "m", "l" >>
  @@ << "o", "b", "j", "e", "c", "t", "i", "v", "e", " ", "c", "a", "m", "l" >> :> << "o", "c", "a", "m", "l" >>
  @@ << "s", "h", "e", "l", "l" >> :> << "b", "a", "s", "h" >>
  @@ << "s", "h", "e", "l", "l", " ", "s", "c", "r", "i", "p", "t" >> :> << "b", "a", "s", "h" >>
  @@ << "u", "n", "i", "x", " ", "s", "h", "e", "l", "l" >> :> << "b", "a", "s", "h" >>
  @@ << "w", "o", "l", "f", "r", "a", "m", " ", "l", "a", "n", "g", "u", "a", "g", "e" >> :> << "m", "a", "t", "h", "e", "m", "a", "t", "i", "c", "a" >>
  @@ << "w", "o", "l", "f", "r", "a", "m" >> :> << "m", "a", "t", "h", "e", "m", "a", "t", "i", "c", "a" >>
  @@ << "r", "s", "t", "a", "t", "s" >> :> << "r" >>
  @@ << "y", "a", "m", "l" >> :> << "y", "a", "m", "l" >>
  @@ << "y", "m", "l" >> :> << "y", "a", "m", "l" >>
  @@ << "j", "s", "o", "n", "c" >> :> << "j", "s", "o", "n" >>
  @@ << "j", "s", "o", "n", "5" >> :> << "j", "s", "o", "n" >>
  @@ << "p", "l", "/", "s", "q", "l" >> :> << "p", "l", "s", "q", "l" >>
  @@ << "p", "l", "-", "s", "q", "l" >> :> << "p", "l", "s", "q", "l" >>
  @@ << "p", "l", "p", "g", "s", "q", "l" >> :> << "p", "o", "s", "t", "g", "r", "e", "s", "q", "l" >>
  @@ << "p", "o", "w", "e", "r", "s", "h", "e", "l", "l" >> :> << "p", "o", "w", "e", "r", "s", "h", "e", "l", "l" >>
  @@ << "v", "i", "m", " ", "s", "c", "r", "i", "p", "t" >> :> << "v", "i", "m", "l" >>
  @@ << "v", "i", "m", "s", "c", "r", "i", "p", "t" >> :> << "v", "i", "m", "l" >>

\* LEXERS of pygments/lexers/_mapping.py as extract_lexers_mapping returns it,
\* in the order of the dict; module, class and mimetypes play no part in the
\* matching and are left out
LEXERS ==
  << [ disp |-> << "C" >>,
       aliases |-> << << "c" >> >>,
       filenames |-> << << "*", ".", "c" >>, << "*", ".", "h" >>,
                      << "*", ".", "i", "d", "c" >> >> ],
     [ disp |-> << "C", "#" >>,
       aliases |-> << << "c", "s", "h", "a", "r", "p" >>, << "c", "#" >>,
                    << "c", "s" >> >>,
       filenames |-> << << "*", ".", "c", "s" >> >> ],
     [ disp |-> << "I", "D", "L" >>,
       aliases |-> << << "i", "d", "l" >> >>,
       filenames |-> << << "*", ".", "p", "r", "o" >> >> ],
     [ disp |-> << "M", "o", "j", "o" >>,
       aliases |-> << << "m", "o", "j", "o" >>, << "U+1F525" >> >>,
       filenames |-> << << "*", ".", "m", "o", "j", "o" >> >> ],
     [ disp |-> << "P", "r", "o", "l", "o", "g" >>,
       aliases |-> << << "p", "r", "o", "l", "o", "g" >> >>,
       filenames |-> << << "*", ".", "e", "c", "l" >>,
                      << "*", ".", "p", "r", "o" >>, << "*", ".", "p", "l" >> >> ],
     [ disp |-> << "V", "i", "m", "L" >>,
       aliases |-> << << "v", "i", "m" >> >>,
       filenames |-> << << "*", ".", "v", "i", "m" >>,
                      << ".", "v", "i", "m", "r", "c" >>,
                      << "_", "v", "i", "m", "r", "c" >>,
                      << "v", "i", "m", "r", "c" >> >> ] >>

\* the keys of name2meta
DispNames == { LEXERS[i].disp : i \in DOMAIN LEXERS }

\* the keys one lexer puts into alias_index: its display name, then its
\* aliases, each normalized, the empty ones dropped
AliasKeys(lexer) ==
  SelectSeq([ i \in 1..(Len(lexer.aliases) + 1) |->
                IF i = 1 THEN normalize_key(lexer.disp)
                ELSE normalize_key(lexer.aliases[i - 1]) ],
            LAMBDA k : k # << >>)

RECURSIVE PutAll(_, _, _)
\* index[k] = disp for every k of keys, in order
PutAll(index, keys, disp) ==
  IF keys = << >> THEN index
  ELSE PutAll((Head(keys) :> disp) @@ index, Tail(keys), disp)

RECURSIVE alias_index_of(_, _)
\* alias_index after the lexers were indexed in order: a later lexer
\* overwrites the key of an earlier one
alias_index_of(lexers, index) ==
  IF lexers = << >> THEN index
  ELSE alias_index_of(Tail(lexers),
                      PutAll(index, AliasKeys(Head(lexers)), Head(lexers).disp))

\* the characters of the extension of a "*.ext" pattern
IsExtChar(c) ==
  c \in LowerLetters \cup UpperLetters \cup Digits \cup { "_", "+", "-", "." }

\* re.match(r'^\*\.(?P<ext>[A-Za-z0-9_+\-\.]+)$', p)
IsStarDotExt(p) ==
  /\ Len(p) >= 3
  /\ p[1] = "*"
  /\ p[2] = "."
  /\ \A i \in 3..Len(p) : IsExtChar(p[i])

IsDot(c) == c = "."

IsDotOrSlash(c) == c \in { ".", "/" }

IsUnderscoreOrDot(c) == c \in { "_", "." }

\* add_fname_token that indexes tokens of every length
add_fname_token_any(tok) ==
  LET t == Lower(Strip(tok))
  IN  IF t = << >> THEN { } ELSE { t }

\* the token add_fname_token indexes for tok, if any: stripped and lowered,
\* and at least three characters long
add_fname_token(tok) ==
  LET t == Lower(Strip(tok))
  IN  IF t = << >> \/ Len(t) < 3 THEN { } ELSE { t }

\* the tokens one filename pattern puts into fname_index
PatternTokens(pat) ==
  LET p == Strip(pat)
  IN  IF p = << >> THEN { }
      ELSE IF IsStarDotExt(p)
      THEN add_fname_token(<< "." >> \o LStripBy(IsDot, Lower(From(p, 3))))
      ELSE LET bare == LStripBy(IsDotOrSlash, p)
           IN  add_fname_token(bare)
                 \cup add_fname_token(LStripBy(IsUnderscoreOrDot, bare))

LexerTokens(lexer) ==
  UNION { PatternTokens(lexer.filenames[i]) : i \in DOMAIN lexer.filenames }

\* build_pygments_indexes(lexers): alias_index maps a normalized name or
\* alias to a display name, fname_index a filename token to the set of the
\* display names that declare it
build_pygments_indexes(lexers) ==
  [ alias_index |-> alias_index_of(lexers, << >>),
    fname_index |->
      [ tok \in UNION { LexerTokens(lexers[i]) : i \in DOMAIN lexers } |->
          { lexers[i].disp : i \in { k \in DOMAIN lexers :
                                       tok \in LexerTokens(lexers[k]) } } ] ]

IsExtSep(c) == IsSpace(c) \/ c \in { ",", ";", "|" }

\* "*.vim" becomes ".vim"
UnStar(t) ==
  IF Len(t) >= 2 /\ t[1] = "*" /\ t[2] = "." THEN << "." >> \o From(t, 3) ELSE t

split_ext_tokens(val) ==
  IF val = << >> THEN << >>
  ELSE LET rough == SplitRuns(IsExtSep, Strip(val))
           stripped == [ i \in DOMAIN rough |-> Strip(rough[i]) ]
           kept == SelectSeq(stripped, LAMBDA t : t # << >>)
       IN  [ i \in DOMAIN kept |-> UnStar(kept[i]) ]

\* a cell that read_csv left empty (NaN)
IsNa(v) == v = << >>

RECURSIVE gather_row_ext_tokens(_, _)
gather_row_ext_tokens(row, extcols) ==
  IF extcols = << >> THEN << >>
  ELSE (IF Head(extcols) \in DOMAIN row /\ ~IsNa(row[Head(extcols)])
        THEN LET toks == split_ext_tokens(row[Head(extcols)])
             IN  [ i \in DOMAIN toks |-> Lower(toks[i]) ]
        ELSE << >>)
       \o gather_row_ext_tokens(row, Tail(extcols))

RECURSIVE pick_first(_, _)
pick_first(row, candidates) ==
  IF candidates = << >> THEN << >>
  ELSE IF /\ Head(candidates) \in DOMAIN row
          /\ ~IsNa(row[Head(candidates)])
          /\ Strip(row[Head(candidates)]) # << >>
       THEN row[Head(candidates)]
       ELSE pick_first(row, Tail(candidates))

pick_master_name(row, candidates) ==
  IF /\ "hyperpolyglot_name" \in DOMAIN row
     /\ ~IsNa(row.hyperpolyglot_name)
     /\ Strip(row.hyperpolyglot_name) # << >>
  THEN row.hyperpolyglot_name
  ELSE pick_first(row, candidates)

\* (len(tok), tok, disp) tuples as Python orders them
CandidateLess(x, y) ==
  IF x[1] # y[1] THEN x[1] < y[1]
  ELSE IF x[2] # y[2] THEN StrLess(x[2], y[2])
  ELSE StrLess(x[3], y[3])

\* the orders in which "for disp in S" may yield the elements of the set S:
\* the iteration order of a set of strings changes from one process to the
\* next
IterationsOf(S) ==
  { o \in [ 1..Cardinality(S) -> S ] : \A i, j \in DOMAIN o : o[i] = o[j] => i = j }

RECURSIVE IterationsOfAll(_, _)
\* fname_index with every set replaced by one of its iteration orders, in
\* every way
IterationsOfAll(fname_index, toks) ==
  IF toks = { } THEN { << >> }
  ELSE LET tok == CHOOSE t \in toks : TRUE
       IN  { (tok :> o) @@ rest :
               o \in IterationsOf(fname_index[tok]),
               rest \in IterationsOfAll(fname_index, toks \ { tok }) }

RECURSIVE Candidates(_, _)
\* the candidates list of the filename tier, in the order it is filled;
\* fname_index[tok] is the set as the iteration over it yields it
Candidates(row_ext_tokens, fname_index) ==
  IF row_ext_tokens = << >> THEN << >>
  ELSE LET tok == Head(row_ext_tokens)
           ds == IF tok \in DOMAIN fname_index THEN fname_index[tok] ELSE << >>
       IN  [ i \in DOMAIN ds |-> << Len(tok), tok, ds[i] >> ]
             \o Candidates(Tail(row_ext_tokens), fname_index)

\* candidates.sort(reverse=True); candidates[0]
FirstOfSortedReverse(candidates) ==
  CHOOSE c \in Range(candidates) :
    \A d \in Range(candidates) : d = c \/ CandidateLess(d, c)

\* the name tier of match_to_pygments: the key itself, then the key the
\* builtin alias table translates it to
NameTier(name, alias_index, builtin_aliases) ==
  LET key == normalize_key(name)
  IN  IF key \in DOMAIN alias_index THEN alias_index[key]
      ELSE IF key \in DOMAIN builtin_aliases
      THEN LET alt == normalize_key(builtin_aliases[key])
           IN  IF alt \in DOMAIN alias_index THEN alias_index[alt] ELSE None
      ELSE None

\* the filename tier of match_to_pygments
FilenameTier(row_ext_tokens, fname_index) ==
  LET candidates == Candidates(row_ext_tokens, fname_index)
  IN  IF candidates # << >> THEN FirstOfSortedReverse(candidates)[3] ELSE None

\* match_to_pygments without the sort of the candidates
match_to_pygments_unsorted(name, row_ext_tokens, alias_index, fname_index, builtin_aliases) ==
  LET byName == NameTier(name, alias_index, builtin_aliases)
      candidates == Candidates(row_ext_tokens, fname_index)
  IN  IF byName # None THEN byName
      ELSE IF candidates # << >> THEN candidates[1][3] ELSE None

\* match_to_pygments with the filename tier consulted first
match_to_pygments_filename_first(name, row_ext_tokens, alias_index, fname_index, builtin_aliases) ==
  LET byFile == FilenameTier(row_ext_tokens, fname_index)
  IN  IF byFile # None THEN byFile
      ELSE NameTier(name, alias_index, builtin_aliases)

\* fname_index[tok] is the set as the iteration over it yields it in this call
match_to_pygments(name, row_ext_tokens, alias_index, fname_index, builtin_aliases) ==
  LET byName == NameTier(name, alias_index, builtin_aliases)
  IN  IF byName # None THEN byName
      ELSE FilenameTier(row_ext_tokens, fname_index)

\* the language-column candidates of main() when --langcol is not given
LangColCandidates ==
  << "hyperpolyglot_name", "language", "lang", "name", "language_name",
     "programming_language" >>

\* autodetect_extcols on the columns of the catalog of the model: the one
\* column whose name holds "ext", "file", "pattern" or "filename"
ExtCols == << "extensions" >>

\* sorted(pyg_all - matched), matched being the matches that are not None
pygments_only(matches) ==
  SortStrings(DispNames \ { matches[i] : i \in DOMAIN matches })

(***************************************************************************)
(* The Rosetta Code linker (augment_with_rosettacode.py)                   *)
(*                                                                         *)
(* Its normalize_token and normalize_key are, character for character, the *)
(* ones of augment_with_pygments.py above.                                 *)
(***************************************************************************)

alias_map ==
  << "c", " ", "s", "h", "a", "r", "p" >> :> << "c", "#" >>
  @@ << "c", "-", "s", "h", "a", "r", "p" >> :> << "c", "#" >>
  @@ << "c", "s", "h", "a", "r", "p" >> :> << "c", "#" >>
  @@ << "f", " ", "s", "h", "a", "r", "p" >> :> << "f", "#" >>
  @@ << "f", "-", "s", "h", "a", "r", "p" >> :> << "f", "#" >>
  @@ << "f", "s", "h", "a", "r", "p" >> :> << "f", "#" >>
  @@ << "c", " ", "p", "l", "u", "s", " ", "p", "l", "u", "s" >> :> << "c", "+", "+" >>
  @@ << "c", "p", "l", "u", "s", "p", "l", "u", "s" >> :> << "c", "+", "+" >>
  @@ << "c", "p", "p" >> :> << "c", "+", "+" >>
  @@ << "o", "b", "j", "e", "c", "t", "i", "v", "e", " ", "c" >> :> << "o", "b", "j", "e", "c", "t", "i", "v", "e", "-", "c" >>
  @@ << "o", "b", "j", "-", "c" >> :> << "o", "b", "j", "e", "c", "t", "i", "v", "e", "-", "c" >>
  @@ << "o", "b", "j", "e", "c", "t", "i", "v", "e", " ", "c", "+", "+" >> :> << "o", "b", "j", "e", "c", "t", "i", "v", "e", "-", "c", "+", "+" >>
  @@ << "o", "b", "j", "-", "c", "+", "+" >> :> << "o", "b", "j", "e", "c", "t", "i", "v", "e", "-", "c", "+", "+" >>
  @@ << "g", "o", "l", "a", "n", "g" >> :> << "g", "o" >>
  @@ << "j", "s" >> :> << "j", "a", "v", "a", "s", "c", "r", "i", "p", "t" >>
  @@ << "t", "s" >> :> << "t", "y", "p", "e", "s", "c", "r", "i", "p", "t" >>
  @@ << "v", "b", ".", "n", "e", "t" >> :> << "v", "i", "s", "u", "a", "l", " ", "b", "a", "s", "i", "c", " ", ".", "n", "e", "t" >>
  @@ << "v", "b" >> :> << "v", "i", "s", "u", "a", "l", " ", "b", "a", "s", "i", "c", " ", ".", "n", "e", "t" >>
  @@ << "v", "i", "s", "u", "a", "l", " ", "b", "a", "s", "i", "c" >> :> << "v", "i", "s", "u", "a", "l", " ", "b", "a", "s", "i", "c", " ", ".", "n", "e", "t" >>
  @@ << "o", "c", "a", "m", "l" >> :> << "o", "c", "a", "m", "l" >>
  @@ << "o", "b", "j", "e", "c", "t", "i", "v", "e", " ", "c", "a", "m", "l" >> :> << "o", "c", "a", "m", "l" >>
  @@ << "v", "i", "m", " ", "s", "c", "r", "i", "p", "t" >> :> << "v", "i", "m", " ", "s", "c", "r", "i", "p", "t" >>
  @@ << "v", "i", "m", "s", "c", "r", "i", "p", "t" >> :> << "v", "i", "m", " ", "s", "c", "r", "i", "p", "t" >>
  @@ << "w", "o", "l", "f", "r", "a", "m", " ", "l", "a", "n", "g", "u", "a", "g", "e" >> :> << "m", "a", "t", "h", "e", "m", "a", "t", "i", "c", "a" >>
  @@ << "w", "o", "l", "f", "r", "a", "m" >> :> << "m", "a", "t", "h", "e", "m", "a", "t", "i", "c", "a" >>
  @@ << "r", "s", "t", "a", "t", "s" >> :> << "r" >>
  @@ << "y", "m", "l" >> :> << "y", "a", "m", "l" >>
  @@ << "j", "s", "o", "n", "c" >> :> << "j", "s", "o", "n" >>
  @@ << "j", "s", "o", "n", "5" >> :> << "j", "s", "o", "n" >>
  @@ << "p", "l", "/", "s", "q", "l" >> :> << "p", "l", "s", "q", "l" >>
  @@ << "p", "l", "-", "s", "q", "l" >> :> << "p", "l", "s", "q", "l" >>
  @@ << "p", "l", "/", "p", "g", "s", "q", "l" >> :> << "p", "l", "p", "g", "s", "q", "l" >>
  @@ << "p", "o", "w", "e", "r", "s", "h", "e", "l", "l" >> :> << "p", "o", "w", "e", "r", "s", "h", "e", "l", "l" >>

RECURSIVE SplitAt(_, _)
\* s.split(sep) for a one-character sep
SplitAt(s, sep) ==
  IF \E i \in DOMAIN s : s[i] = sep
  THEN LET n == CHOOSE i \in DOMAIN s :
                  s[i] = sep /\ \A j \in 1..(i - 1) : s[j] # sep
       IN  << Upto(s, n - 1) >> \o SplitAt(From(s, n + 1), sep)
  ELSE << s >>

\* the parts of a split, stripped, the empty ones dropped
StrippedParts(parts) ==
  SelectSeq([ i \in DOMAIN parts |-> Strip(parts[i]) ], LAMBDA t : t # << >>)

PieceSeparators == << ";", ",", "|", "/", "\\" >>

IsUnderscoreOrHyphen(c) == c \in { "_", "-" }

RECURSIVE PiecesAt(_, _)
PiecesAt(s, seps) ==
  IF seps = << >> THEN << >>
  ELSE (IF Head(seps) \in Range(s)
        THEN StrippedParts(SplitAt(s, Head(seps)))
        ELSE << >>)
       \o PiecesAt(s, Tail(seps))

\* what _tokenize_pieces(s) yields, in order
tokenize_pieces(s) ==
  << s >> \o PiecesAt(s, PieceSeparators)
    \o (IF \E i \in DOMAIN s : IsUnderscoreOrHyphen(s[i])
        THEN StrippedParts(SplitRuns(IsUnderscoreOrHyphen, s))
        ELSE << >>)

\* s.replace(" ", "-") and the like
SwapChar(s, old, new) == [ i \in DOMAIN s |-> IF s[i] = old THEN new ELSE s[i] ]

DropChar(s, old) == SelectSeq(s, LAMBDA c : c # old)

\* what _variants(key) yields, in order
variants(key) ==
  << key, SwapChar(key, " ", "-"), SwapChar(key, "-", " "),
     DropChar(key, " "), DropChar(key, "-") >>

RECURSIVE Flatten(_)
Flatten(seqs) ==
  IF seqs = << >> THEN << >> ELSE Head(seqs) \o Flatten(Tail(seqs))

\* the keys one piece adds to the index, in order
PieceKeys(piece) ==
  LET key == normalize_key(piece)
  IN  IF key = << >> THEN << >>
      ELSE variants(key)
             \o (IF key \in DOMAIN alias_map /\ alias_map[key] # << >>
                 THEN variants(alias_map[key])
                 ELSE << >>)

\* the keys one cell adds to the index, in order
CellKeys(val) ==
  IF IsNa(val) \/ Strip(val) = << >> THEN << >>
  ELSE LET pieces == tokenize_pieces(val)
       IN  Flatten([ i \in DOMAIN pieces |-> PieceKeys(pieces[i]) ])

\* the keys one row adds to the index, column after column
RowKeys(row, columns) ==
  Flatten([ c \in DOMAIN columns |-> CellKeys(row[columns[c]]) ])

\* no row: what map_rosetta_to_master returns as None (rows count from 1)
NoRow == 0

RECURSIVE SetDefaultAll(_, _, _)
\* idx.setdefault(k, ridx) for every k of keys, in order
SetDefaultAll(idx, keys, ridx) ==
  IF keys = << >> THEN idx
  ELSE LET next == IF Head(keys) \in DOMAIN idx.row THEN idx
                   ELSE [ keys |-> Append(idx.keys, Head(keys)),
                          row |-> idx.row @@ (Head(keys) :> ridx) ]
       IN  \* the test, always true, has next evaluated before the next step
           IF Len(next.keys) >= Len(idx.keys)
           THEN SetDefaultAll(next, Tail(keys), ridx)
           ELSE idx

RECURSIVE IndexRows(_, _, _, _)
IndexRows(idx, df, columns, ridx) ==
  IF ridx > Len(df) THEN idx
  ELSE LET next == SetDefaultAll(idx, RowKeys(df[ridx], columns), ridx)
       IN  IF Len(next.keys) >= Len(idx.keys)
           THEN IndexRows(next, df, columns, ridx + 1)
           ELSE idx

\* build_master_index_all_strings(df): row maps a key to the first row that
\* holds it, keys lists the keys in the order the dict got them
build_master_index_all_strings(df, columns) ==
  IndexRows([ keys |-> << >>, row |-> << >> ], df, columns, 1)

RECURSIVE CommonPrefixLen(_, _)
CommonPrefixLen(a, b) ==
  IF a = << >> \/ b = << >> THEN 0
  ELSE IF Head(a) # Head(b) THEN 0
  ELSE 1 + CommonPrefixLen(Tail(a), Tail(b))

\* SequenceMatcher.find_longest_match on all of a and b, no character being
\* junk: << i, j, k >> with a[i..i+k-1] = b[j..j+k-1], k the largest there is,
\* then i the smallest, then j the smallest; k = 0 if a and b share nothing
find_longest_match(a, b) ==
  LET size(p) == CommonPrefixLen(From(a, p[1]), From(b, p[2]))
      pairs == { p \in (DOMAIN a) \X (DOMAIN b) : a[p[1]] = b[p[2]] }
  IN  IF pairs = { } THEN << 1, 1, 0 >>
      ELSE LET best == CHOOSE p \in pairs :
                         \A q \in pairs :
                           \/ size(q) < size(p)
                           \/ /\ size(q) = size(p)
                              /\ \/ p[1] < q[1]
                                 \/ p[1] = q[1] /\ p[2] <= q[2]
           IN  << best[1], best[2], size(best) >>

RECURSIVE MatchingSize(_, _)
\* the sum of the sizes of SequenceMatcher.get_matching_blocks(): the longest
\* match, then the same to its left and to its right
MatchingSize(a, b) ==
  IF a = << >> \/ b = << >> THEN 0
  ELSE LET m == find_longest_match(a, b)
       IN  IF m[3] = 0 THEN 0
           ELSE m[3] + MatchingSize(Upto(a, m[1] - 1), Upto(b, m[2] - 1))
                     + MatchingSize(From(a, m[1] + m[3]), From(b, m[2] + m[3]))

Min(a, b) == IF a <= b THEN a ELSE b

Count(s, c) == Cardinality({ i \in DOMAIN s : s[i] = c })

RECURSIVE SumOver(_, _)
SumOver(f, S) ==
  IF S = { } THEN 0
  ELSE LET x == CHOOSE y \in S : TRUE IN f[x] + SumOver(f, S \ { x })

\* the matches quick_ratio() counts: the characters a and b share, as bags
QuickMatches(a, b) ==
  SumOver([ c \in Range(a) \cap Range(b) |-> Min(Count(a, c), Count(b, c)) ],
          Range(a) \cap Range(b))

RosettaCutoff == 92

\* 2.0 * matches / length >= percent / 100, an empty pair of strings having
\* the ratio 1.0
RatioAtLeast(matches, length, percent) ==
  IF length = 0 THEN TRUE ELSE 200 * matches >= percent * length

\* the test of get_close_matches: real_quick_ratio(), quick_ratio() and
\* ratio() of SequenceMatcher(a = x, b = word) all reach the cutoff
IsClose(x, word, percent) ==
  /\ RatioAtLeast(Min(Len(x), Len(word)), Len(x) + Len(word), percent)
  /\ RatioAtLeast(QuickMatches(x, word), Len(x) + Len(word), percent)
  /\ RatioAtLeast(MatchingSize(x, word), Len(x) + Len(word), percent)

\* (ratio, x) < (ratio, y) as Python compares the result tuples
ScoredLess(x, y, word) ==
  LET mx == MatchingSize(x, word)
      my == MatchingSize(y, word)
      tx == Len(x) + Len(word)
      ty == Len(y) + Len(word)
  IN  IF mx * ty # my * tx THEN mx * ty < my * tx ELSE StrLess(x, y)

\* get_close_matches that returns the first close possibility
get_close_matches_first(word, possibilities, percent) ==
  LET close == SelectSeq(possibilities, LAMBDA x : IsClose(x, word, percent))
  IN  IF close = << >> THEN << >> ELSE << close[1] >>

\* difflib.get_close_matches(word, possibilities, n=1, cutoff=percent/100)
get_close_matches(word, possibilities, percent) ==
  LET close == SelectSeq(possibilities, LAMBDA x : IsClose(x, word, percent))
  IN  IF close = << >> THEN << >>
      ELSE << CHOOSE x \in Range(close) :
                \A y \in Range(close) : y = x \/ ScoredLess(y, x, word) >>

\* the first element of seq that is in S, None if there is none
FirstIn(seq, S) ==
  IF \E i \in DOMAIN seq : seq[i] \in S
  THEN seq[CHOOSE i \in DOMAIN seq :
             seq[i] \in S /\ \A j \in 1..(i - 1) : seq[j] \notin S]
  ELSE None

\* map_rosetta_to_master(name, index): the row of the catalog, or NoRow.
\* candidates is list(index.keys()) in the order the dict yields its keys.
map_rosetta_to_master(name, index, candidates) ==
  LET key == normalize_key(name)
      ali == IF key \in DOMAIN alias_map THEN alias_map[key] ELSE key
      v == FirstIn(variants(ali), DOMAIN index)
      best == get_close_matches(ali, candidates, RosettaCutoff)
  IN  IF key \in DOMAIN index THEN index[key]
      ELSE IF v # None THEN index[v]
      ELSE IF best # << >> THEN index[best[1]]
      ELSE NoRow

Reverse(seq) == [ i \in DOMAIN seq |-> seq[Len(seq) + 1 - i] ]

\* the orders list(index.keys()) is given in the model: the insertion order,
\* which is the one a dict has, and its reverse
KeyOrders(keys) == { keys, Reverse(keys) }

(***************************************************************************)
(* The Hyperpolyglot linker (augment_languages.py)                         *)
(* Its normalize_token and normalize_key are, character for character, the *)
(* ones of augment_with_pygments.py above.                                 *)
(***************************************************************************)

\* builtin_alias_table() of augment_languages.py: a key to a display name
hp_builtin_alias_table ==
  << "c", " ", "s", "h", "a", "r", "p" >> :> << "C", "#" >>
  @@ << "c", "-", "s", "h", "a", "r", "p" >> :> << "C", "#" >>
  @@ << "c", "s", "h", "a", "r", "p" >> :> << "C", "#" >>
  @@ << "c", "s" >> :> << "C", "#" >>
  @@ << "c", "#" >> :> << "C", "#" >>
  @@ << "f", " ", "s", "h", "a", "r", "p" >> :> << "F", "#" >>
  @@ << "f", "-", "s", "h", "a", "r", "p" >> :> << "F", "#" >>
  @@ << "f", "s", "h", "a", "r", "p" >> :> << "F", "#" >>
  @@ << "f", "#" >> :> << "F", "#" >>
  @@ << "o", "b", "j", "e", "c", "t", "i", "v", "e", " ", "c" >> :> << "O", "b", "j", "e", "c", "t", "i", "v", "e", "-", "C" >>
  @@ << "o", "b", "j", "e", "c", "t", "i", "v", "e", "-", "c" >> :> << "O", "b", "j", "e", "c", "t", "i", "v", "e", "-", "C" >>
  @@ << "o", "b", "j", "-", "c" >> :> << "O", "b", "j", "e", "c", "t", "i", "v", "e", "-", "C" >>
  @@ << "o", "b", "j", "e", "c", "t", "i", "v", "e", " ", "c", "+", "+" >> :> << "O", "b", "j", "e", "c", "t", "i", "v", "e", "-", "C", "+", "+" >>
  @@ << "o", "b", "j", "e", "c", "t", "i", "v", "e", "-", "c", "+", "+" >> :> << "O", "b", "j", "e", "c", "t", "i", "v", "e", "-", "C", "+", "+" >>
  @@ << "o", "b", "j", "-", "c", "+", "+" >> :> << "O", "b", "j", "e", "c", "t", "i", "v", "e", "-", "C", "+", "+" >>
  @@ << "c", " ", "p", "l", "u", "s", " ", "p", "l", "u", "s" >> :> << "C", "+", "+" >>
  @@ << "c", "p", "l", "u", "s", "p", "l", "u", "s" >> :> << "C", "+", "+" >>
  @@ << "c", "p", "p" >> :> << "C", "+", "+" >>
  @@ << "c", "+", "+" >> :> << "C", "+", "+" >>
  @@ << "c", " ", "l", "a", "n", "g", "u", "a", "g", "e" >> :> << "C" >>
  @@ << "g", "o", "l", "a", "n", "g" >> :> << "G", "o" >>
  @@ << "t", "s", "q", "l" >> :> << "T", "S", "Q", "L" >>
  @@ << "t", "-", "s", "q", "l" >> :> << "T", "S", "Q", "L" >>
  @@ << "m", "i", "c", "r", "o", "s", "o", "f", "t", " ", "t", "s", "q", "l" >> :> << "T", "S", "Q", "L" >>
  @@ << "p", "l", "/", "s", "q", "l" >> :> << "P", "L", "S", "Q", "L" >>
  @@ << "p", "l", "-", "s", "q", "l" >> :> << "P", "L", "S", "Q", "L" >>
  @@ << "p", "l", "s", "q", "l" >> :> << "P", "L", "S", "Q", "L" >>
  @@ << "p", "l", "/", "p", "g", "s", "q", "l" >> :> << "P", "L", "p", "g", "S", "Q", "L" >>
  @@ << "p", "l", "p", "g", "s", "q", "l" >> :> << "P", "L", "p", "g", "S", "Q", "L" >>
  @@ << "c", "m", "d" >> :> << "B", "a", "t", "c", "h", "f", "i", "l", "e" >>
  @@ << "d", "o", "s", " ", "b", "a", "t", "c", "h" >> :> << "B", "a", "t", "c", "h", "f", "i", "l", "e" >>
  @@ << "b", "a", "t", "c", "h" >> :> << "B", "a", "t", "c", "h", "f", "i", "l", "e" >>
  @@ << "p", "o", "w", "e", "r", "s", "h", "e", "l", "l", " ", "c", "o", "r", "e" >> :> << "P", "o", "w", "e", "r", "S", "h", "e", "l", "l" >>
  @@ << "w", "i", "n", "d", "o", "w", "s", " ", "p", "o", "w", "e", "r", "s", "h", "e", "l", "l" >> :> << "P", "o", "w", "e", "r", "S", "h", "e", "l", "l" >>
  @@ << "p", "s" >> :> << "P", "o", "w", "e", "r", "S", "h", "e", "l", "l" >>
  @@ << "z", " ", "s", "h", "e", "l", "l" >> :> << "S", "h", "e", "l", "l" >>
  @@ << "z", "s", "h" >> :> << "S", "h", "e", "l", "l" >>
  @@ << "b", "a", "s", "h" >> :> << "S", "h", "e", "l", "l" >>
  @@ << "f", "i", "s", "h", " ", "s", "h", "e", "l", "l" >> :> << "f", "i", "s", "h" >>
  @@ << "s", "h", "e", "l", "l", " ", "s", "c", "r", "i", "p", "t" >> :> << "S", "h", "e", "l", "l" >>
  @@ << "u", "n", "i", "x", " ", "s", "h", "e", "l", "l" >> :> << "S", "h", "e", "l", "l" >>
  @@ << "p", "o", "s", "i", "x", " ", "s", "h", "e", "l", "l" >> :> << "S", "h", "e", "l", "l" >>
  @@ << "h", "t", "m", "l", "5" >> :> << "H", "T", "M", "L" >>
  @@ << "h", "t", "m", "l", "+", "p", "h", "p" >> :> << "H", "T", "M", "L", "+", "P", "H", "P" >>
  @@ << "h", "t", "m", "l", "+", "e", "r", "b" >> :> << "H", "T", "M", "L", "+", "E", "R", "B" >>
  @@ << "h", "t", "m", "l", "+", "e", "c", "r" >> :> << "H", "T", "M", "L", "+", "E", "C", "R" >>
  @@ << "h", "t", "m", "l", "+", "d", "j", "a", "n", "g", "o" >> :> << "H", "T", "M", "L", "+", "D", "j", "a", "n", "g", "o" >>
  @@ << "s", "c", "s", "s" >> :> << "S", "C", "S", "S" >>
  @@ << "s", "a", "s", "s" >> :> << "S", "a", "s", "s" >>
  @@ << "l", "e", "s", "s" >> :> << "L", "e", "s", "s" >>
  @@ << "s", "t", "y", "l", "u", "s" >> :> << "S", "t", "y", "l", "u", "s" >>
  @@ << "j", "s" >> :> << "J", "a", "v", "a", "S", "c", "r", "i", "p", "t" >>
  @@ << "j", "a", "v", "a", "s", "c", "r", "i", "p", "t" >> :> << "J", "a", "v", "a", "S", "c", "r", "i", "p", "t" >>
  @@ << "t", "s" >> :> << "T", "y", "p", "e", "S", "c", "r", "i", "p", "t" >>
  @@ << "t", "s", "x" >> :> << "T", "S", "X" >>
  @@ << "j", "s", "x" >> :> << "J", "S", "X" >>
  @@ << "p", "u", "g" >> :> << "P", "u", "g" >>
  @@ << "j", "a", "d", "e" >> :> << "P", "u", "g" >>
  @@ << "h", "a", "n", "d", "l", "e", "b", "a", "r", "s" >> :> << "H", "a", "n", "d", "l", "e", "b", "a", "r", "s" >>
  @@ << "h", "b", "s" >> :> << "H", "a", "n", "d", "l", "e", "b", "a", "r", "s" >>
  @@ << "m", "u", "s", "t", "a", "c", "h", "e" >> :> << "H", "a", "n", "d", "l", "e", "b", "a", "r", "s" >>
  @@ << "x", "m", "l", " ", "p", "l", "i", "s", "t" >> :> << "X", "M", "L", " ", "P", "r", "o", "p", "e", "r", "t", "y", " ", "L", "i", "s", "t" >>
  @@ << "p", "l", "i", "s", "t" >> :> << "X", "M", "L", " ", "P", "r", "o", "p", "e", "r", "t", "y", " ", "L", "i", "s", "t" >>
  @@ << "y", "a", "m", "l" >> :> << "Y", "A", "M", "L" >>
  @@ << "y", "m", "l" >> :> << "Y", "A", "M", "L" >>
  @@ << "t", "o", "m", "l" >> :> << "T", "O", "M", "L" >>
  @@ << "j", "s", "o", "n", "5" >> :> << "J", "S", "O", "N", "5" >>
  @@ << "j", "s", "o", "n", "c" >> :> << "J", "S", "O", "N", " ", "w", "i", "t", "h", " ", "C", "o", "m", "m", "e", "n", "t", "s" >>
  @@ << "c", "s", "o", "n" >> :> << "C", "S", "O", "N" >>
  @@ << "i", "n", "i" >> :> << "I", "N", "I" >>
  @@ << "e", "d", "i", "t", "o", "r", "c", "o", "n", "f", "i", "g" >> :> << "E", "d", "i", "t", "o", "r", "C", "o", "n", "f", "i", "g" >>
  @@ << "l", "l", "v", "m", " ", "i", "r" >> :> << "L", "L", "V", "M" >>
  @@ << "l", "l", "v", "m" >> :> << "L", "L", "V", "M" >>
  @@ << "n", "i", "m", "l", "a", "n", "g" >> :> << "N", "i", "m" >>
  @@ << "o", "c", "a", "m", "l" >> :> << "O", "C", "a", "m", "l" >>
  @@ << "o", "b", "j", "e", "c", "t", "i", "v", "e", " ", "c", "a", "m", "l" >> :> << "O", "C", "a", "m", "l" >>
  @@ << "r", "k", "t" >> :> << "R", "a", "c", "k", "e", "t" >>
  @@ << "c", "l", "j" >> :> << "C", "l", "o", "j", "u", "r", "e" >>
  @@ << "c", "l", "j", "c" >> :> << "C", "l", "o", "j", "u", "r", "e" >>
  @@ << "c", "l", "j", "s" >> :> << "C", "l", "o", "j", "u", "r", "e" >>
  @@ << "e", "l", "i", "s", "p" >> :> << "E", "m", "a", "c", "s", " ", "L", "i", "s", "p" >>
  @@ << "e", "m", "a", "c", "s", "-", "l", "i", "s", "p" >> :> << "E", "m", "a", "c", "s", " ", "L", "i", "s", "p" >>
  @@ << "m", "a", "t", "l", "a", "b" >> :> << "M", "A", "T", "L", "A", "B" >>
  @@ << "w", "o", "l", "f", "r", "a", "m" >> :> << "M", "a", "t", "h", "e", "m", "a", "t", "i", "c", "a" >>
  @@ << "w", "o", "l", "f", "r", "a", "m", " ", "l", "a", "n", "g", "u", "a", "g", "e" >> :> << "M", "a", "t", "h", "e", "m", "a", "t", "i", "c", "a" >>
  @@ << "r", "s", "t", "a", "t", "s" >> :> << "R" >>
  @@ << "s", "t", "a", "t", "a" >> :> << "S", "t", "a", "t", "a" >>
  @@ << "a", "p", "l" >> :> << "A", "P", "L" >>
  @@ << "j", " ", "l", "a", "n", "g", "u", "a", "g", "e" >> :> << "J" >>
  @@ << "v", "h", "d", "l" >> :> << "V", "H", "D", "L" >>
  @@ << "v", "e", "r", "i", "l", "o", "g" >> :> << "V", "e", "r", "i", "l", "o", "g" >>
  @@ << "s", "y", "s", "t", "e", "m", "v", "e", "r", "i", "l", "o", "g" >> :> << "S", "y", "s", "t", "e", "m", "V", "e", "r", "i", "l", "o", "g" >>
  @@ << "h", "l", "s", "l" >> :> << "H", "L", "S", "L" >>
  @@ << "g", "l", "s", "l" >> :> << "G", "L", "S", "L" >>
  @@ << "v", "b" >> :> << "V", "i", "s", "u", "a", "l", " ", "B", "a", "s", "i", "c", " ", ".", "N", "E", "T" >>
  @@ << "v", "b", ".", "n", "e", "t" >> :> << "V", "i", "s", "u", "a", "l", " ", "B", "a", "s", "i", "c", " ", ".", "N", "E", "T" >>
  @@ << "v", "b", "a" >> :> << "V", "B", "A" >>
  @@ << "k", "8", "s", " ", "m", "a", "n", "i", "f", "e", "s", "t" >> :> << "Y", "A", "M", "L" >>
  @@ << "c", "u", "d", "a" >> :> << "C", "u", "d", "a" >>
  @@ << "p", "l", "a", "i", "n", " ", "t", "e", "x", "t" >> :> << "T", "e", "x", "t" >>
  @@ << "m", "a", "r", "k", "d", "o", "w", "n" >> :> << "M", "a", "r", "k", "d", "o", "w", "n" >>
  @@ << "m", "d" >> :> << "M", "a", "r", "k", "d", "o", "w", "n" >>
  @@ << "f", "s", "t", "a", "r" >> :> << "F", "*" >>

\* what variants(name) of build_index yields, in order
build_index_variants(hp) ==
  LET base == normalize_key(hp)
  IN  << base, SwapChar(base, " ", "-"), SwapChar(base, "-", " "),
         DropChar(base, " ") >>

\* build_index(hp_list): idx[v] = hp for every variant of every name in
\* turn, so a key two names share keeps the later name
build_index(hp_list) ==
  LET keysOf(i) == Range(build_index_variants(hp_list[i]))
      keys == UNION { keysOf(i) : i \in DOMAIN hp_list }
      last(k) == CHOOSE i \in DOMAIN hp_list :
                   k \in keysOf(i) /\ \A j \in DOMAIN hp_list :
                                       k \in keysOf(j) => j <= i
  IN  [ k \in keys |-> hp_list[last(k)] ]

noise ==
  { << "l", "a", "n", "g", "u", "a", "g", "e" >>,
    << "p", "r", "o", "g", "r", "a", "m", "m", "i", "n", "g" >>,
    << "f", "i", "l", "e" >>,
    << "s", "c", "r", "i", "p", "t" >> }

\* to_hp_canonical(name, idx, alias_map): "idx.get(key) or idx.get(key2)" is
\* idx.get(key2) when key is absent or maps to the empty string
to_hp_canonical(name, idx, aliases) ==
  LET key == normalize_key(name)
      key2 == Join(SPACE, SelectSeq(SplitSpace(key), LAMBDA w : w \notin noise))
  IN  IF key \in DOMAIN aliases THEN aliases[key]
      ELSE IF key \in DOMAIN idx /\ idx[key] # << >> THEN idx[key]
      ELSE IF key2 \in DOMAIN idx THEN idx[key2]
      ELSE None


(***************************************************************************)
(* State                                                                   *)
(***************************************************************************)

VARIABLES
  idPc,        \* make_id calls: "start", "first", "second", "done"
  idName,      \* the name given to the first and second call
  idOut,       \* what the first call returned
  idAgain,     \* what the second call, on the same name, returned
  idOther,     \* the name given to the third call
  idOtherOut,  \* what the third call returned
  bPc,         \* main(): "ingest", "frame", "grouped", "collapsed", "done"
  rows,        \* the rows appended from the sources, in order
  alias_rows,  \* the alias rows appended from the sources
  df,          \* the enriched frame with source_count
  dfm,         \* the catalog
  dfm_exact,   \* the catalog as the exact-key group-by left it
  df_alias,    \* the alias table
  id_map,      \* the remap of the fuzzy collapse
  lPc,         \* the linkers: "load", "pygments", "rosetta", "done"
  langcol,     \* the columns --langcol names, none if it is not given
  master,      \* the catalog the linkers read
  run,         \* the run of the linker under way: 1, then 2
  pyg_matches, \* per run, the pygments_name column so far
  pyg_only,    \* per run, the Pygments-only report
  rc_name,     \* per run, the rosettacode_name column
  rc_missing,  \* per run, the Rosetta-only report
  tName,       \* the name given to the name tiers of the three linkers
  hp_out,      \* what to_hp_canonical returned for it
  pyg_out,     \* what match_to_pygments returned for it
  rc_out,      \* the set of what map_rosetta_to_master returned for it
  fPc,         \* the fetches of main(): "linguist", "wikipedia", "esolang",
               \* "fetched", "failed"
  offline,     \* args.offline
  include_esolang, \* args.include_esolang
  raw,         \* the files data/raw holds
  network,     \* the hosts requests were sent to
  pb_lines,    \* parse_blocks: the lines of the text read so far
  pb_props,    \* parse_blocks: props
  pb_key,      \* parse_blocks: current_key
  rPc,         \* the fetch helper called: "api_get" or "http_get_plain"
               \* while it loops, "returned", "raised"
  rUrls,       \* API_BASES, or the urls http_get_plain was given
  rBase,       \* the position of the loop over them
  rAttempt,    \* api_get: attempt
  rLog,        \* the requests sent so far, each with its response
  rResult      \* the set of what the helper returned

idVars == << idPc, idName, idOut, idAgain, idOther, idOtherOut >>

buildVars == << bPc, rows, alias_rows, df, dfm, dfm_exact, df_alias, id_map >>

linkVars ==
  << lPc, langcol, master, run, pyg_matches, pyg_only, rc_name, rc_missing >>

tierVars == << tName, hp_out, pyg_out, rc_out >>

fetchVars == << fPc, offline, include_esolang, raw, network >>

parseVars == << pb_lines, pb_props, pb_key >>

\* the variables of the specifications that follow the linkers
retryVars == << rPc, rUrls, rBase, rAttempt, rLog, rResult >>

\* the variables of the specifications that follow parse_blocks
pastVars == << retryVars >>

laterVars == << parseVars, pastVars >>

\* the variables of the name tiers, of the fetches and of what follows
restVars == << tierVars, fetchVars, laterVars >>

vars == << idVars, buildVars, linkVars, restVars >>

\* a value no call returns
Unset == << "unset" >>

(***************************************************************************)
(* Calls of make_id                                                        *)
(***************************************************************************)

MaxNameLen == 3

MaxOtherLen == 1

IdAlphabet == { "a", "C", "#", "+", " ", "-", "U+00E9", "U+266F" }

StringsOver(alphabet, n) == UNION { [ 1..k -> alphabet ] : k \in 0..n }

Names == StringsOver(IdAlphabet, MaxNameLen)

\* names of the shape of a fallback identifier: "id-" and eight hex digits
FallbackLikeNames ==
  { IdPrefix \o Sha1Hex8(s) :
      s \in { t \in StringsOver(IdAlphabet, MaxOtherLen) : norm(t) = << >> } }

OtherNames == StringsOver(IdAlphabet, MaxOtherLen) \cup FallbackLikeNames

\* no make_id call is being followed
IdIdle ==
  /\ idPc = "idle"
  /\ idName = << >>
  /\ idOther = << >>
  /\ idOut = Unset
  /\ idAgain = Unset
  /\ idOtherOut = Unset

\* no build is running
BuildIdle ==
  /\ bPc = "idle"
  /\ rows = << >>
  /\ alias_rows = << >>
  /\ df = << >>
  /\ dfm = << >>
  /\ dfm_exact = << >>
  /\ df_alias = << >>
  /\ id_map = << >>

\* no name tier is being called
TierIdle ==
  /\ tName = << >>
  /\ hp_out = Unset
  /\ pyg_out = Unset
  /\ rc_out = { }

\* no fetch is under way
FetchIdle ==
  /\ fPc = "idle"
  /\ offline = FALSE
  /\ include_esolang = FALSE
  /\ raw = { }
  /\ network = { }

\* parse_blocks is not running
ParseIdle ==
  /\ pb_lines = << >>
  /\ pb_props = << >>
  /\ pb_key = << >>

\* no fetch helper is running
RetryIdle ==
  /\ rPc = "idle"
  /\ rUrls = << >>
  /\ rBase = 1
  /\ rAttempt = 0
  /\ rLog = << >>
  /\ rResult = { }

PastIdle == RetryIdle

LaterIdle == ParseIdle /\ PastIdle

RestIdle == TierIdle /\ FetchIdle /\ LaterIdle

\* no linker is running
LinkIdle ==
  /\ lPc = "idle"
  /\ langcol = << >>
  /\ master = << >>
  /\ run = 0
  /\ pyg_matches = << >>
  /\ pyg_only = << >>
  /\ rc_name = << >>
  /\ rc_missing = << >>

IdInit ==
  /\ BuildIdle
  /\ LinkIdle
  /\ RestIdle
  /\ idPc = "start"
  /\ idName \in Names
  /\ idOther \in OtherNames
  /\ idOut = Unset
  /\ idAgain = Unset
  /\ idOtherOut = Unset

CallMakeId ==
  /\ idPc = "start"
  /\ idOut' = make_id(idName)
  /\ idPc' = "first"
  /\ UNCHANGED << idName, idAgain, idOther, idOtherOut, buildVars, linkVars, restVars >>

CallMakeIdAgain ==
  /\ idPc = "first"
  /\ idAgain' = make_id(idName)
  /\ idPc' = "second"
  /\ UNCHANGED << idName, idOut, idOther, idOtherOut, buildVars, linkVars, restVars >>

CallMakeIdOther ==
  /\ idPc = "second"
  /\ idOtherOut' = make_id(idOther)
  /\ idPc' = "done"
  /\ UNCHANGED << idName, idOut, idAgain, idOther, buildVars, linkVars, restVars >>

IdNext == CallMakeId \/ CallMakeIdAgain \/ CallMakeIdOther

SpecId == IdInit /\ [][IdNext]_vars

(***************************************************************************)
(* Claims about make_id                                                    *)
(***************************************************************************)

\* C1: whatever the name (empty, whitespace-only and punctuation-only names
\* included), make_id returns a non-empty identifier, and a second call on
\* the same name returns the same identifier.
C1_NonEmptyDeterministic ==
  /\ idPc # "start" => idOut # << >>
  /\ idPc \in { "second", "done" } => idAgain = idOut

\* A punctuation-and-whitespace name, whose normalized key is empty, has been
\* given an identifier twice.
C1_Witness ==
  /\ idPc = "second"
  /\ idName = << "-", " ", "-" >>
  /\ idOut = IdPrefix \o Sha1Hex8(idName)

\* C2: two distinct non-empty names whose normalized keys differ get different
\* identifiers (the case where one key is empty and that name takes the
\* "id-<hash>" fallback included). Two names with different keys are never both
\* hashed, so no collision of the hash is involved.
C2_DistinctKeysDistinctIds ==
  ( /\ idPc = "done"
    /\ idName # << >>
    /\ idOther # << >>
    /\ idName # idOther
    /\ norm(idName) # norm(idOther) )
  => idOut # idOtherOut

(***************************************************************************)
(* The build stage: main() of build_master_list_local_pldb.py              *)
(***************************************************************************)

MaxRows == 3

BuildInit ==
  /\ IdIdle
  /\ LinkIdle
  /\ RestIdle
  /\ bPc = "ingest"
  /\ rows = << >>
  /\ alias_rows = << >>
  /\ df = << >>
  /\ dfm = << >>
  /\ dfm_exact = << >>
  /\ df_alias = << >>
  /\ id_map = << >>

\* the source a raw row came from
SourceOf(r) == r.source_flags[1]

\* the rows of one source so far
RowsFrom(tag) == SelectSeq(rows, LAMBDA r : SourceOf(r) = tag)

\* no row of a source that main() reads after this one has been appended
NoneAfter(tag) ==
  \A i \in DOMAIN rows : SourceRank(SourceOf(rows[i])) <= SourceRank(tag)

\* a list written by sorted() is read in increasing order
Increasing(tag, t) ==
  LET seen == RowsFrom(tag)
  IN  IF seen = << >> THEN TRUE ELSE StrLess(seen[Len(seen)].canonical_name, t)

AddLinguist ==
  /\ bPc = "ingest"
  /\ Len(rows) < MaxRows
  /\ NoneAfter("linguist")
  /\ \E e \in LinguistEntries :
       /\ \A i \in DOMAIN rows : rows[i].canonical_name # e.name
       /\ rows' = Append(rows, LinguistRow(e))
       /\ alias_rows' = alias_rows \o AliasRowsOf(e.aliases, make_id(e.name), "linguist")
  /\ UNCHANGED << bPc, df, dfm, dfm_exact, df_alias, id_map, idVars, linkVars, restVars >>

AddWikipedia ==
  /\ bPc = "ingest"
  /\ Len(rows) < MaxRows
  /\ NoneAfter("wikipedia")
  /\ \E t \in WikipediaTitles :
       /\ Increasing("wikipedia", t)
       /\ rows' = Append(rows, TitleRow(t, "wikipedia"))
  /\ UNCHANGED << bPc, alias_rows, df, dfm, dfm_exact, df_alias, id_map, idVars, linkVars, restVars >>

\* only with --include-esolang
AddEsolang ==
  /\ bPc = "ingest"
  /\ Len(rows) < MaxRows
  /\ NoneAfter("esolang")
  /\ \E t \in EsolangTitles :
       /\ Increasing("esolang", t)
       /\ rows' = Append(rows, TitleRow(t, "esolang"))
  /\ UNCHANGED << bPc, alias_rows, df, dfm, dfm_exact, df_alias, id_map, idVars, linkVars, restVars >>

AddPldb ==
  /\ bPc = "ingest"
  /\ Len(rows) < MaxRows
  /\ \E r \in PldbRecords :
       /\ rows' = Append(rows, PldbRow(r))
       /\ alias_rows' = alias_rows \o AliasRowsOf(r.aliases, make_id(r.name), "pldb")
  /\ UNCHANGED << bPc, df, dfm, dfm_exact, df_alias, id_map, idVars, linkVars, restVars >>

\* pd.DataFrame(rows), the enrichment and the derived source_count
BuildFrame ==
  /\ bPc = "ingest"
  /\ rows # << >>
  /\ df' = WithSourceCount(enrich_extensions_from_linguist(rows))
  /\ bPc' = "frame"
  /\ UNCHANGED << rows, alias_rows, dfm, dfm_exact, df_alias, id_map, idVars, linkVars, restVars >>

\* the rows with a non-empty lang_id are grouped by it; alias_count
GroupBy ==
  /\ bPc = "frame"
  /\ LET kept == SelectSeq(df, LAMBDA r : Len(r.lang_id) > 0)
         merged == groupby_agg(kept, [ i \in DOMAIN kept |-> kept[i].lang_id ])
         aliases == drop_duplicates(alias_rows \o SelfAliases(merged))
         catalog == WithAliasCount(merged, aliases)
     IN  /\ dfm' = catalog
         /\ dfm_exact' = catalog
         /\ df_alias' = aliases
  /\ bPc' = "grouped"
  /\ UNCHANGED << rows, alias_rows, df, id_map, idVars, linkVars, restVars >>

\* the conservative fuzzy collapse: the remap
FuzzyCollapse ==
  /\ bPc = "grouped"
  /\ id_map' = fuzzy_id_map(dfm)
  /\ bPc' = "collapsed"
  /\ UNCHANGED << rows, alias_rows, df, dfm, dfm_exact, df_alias, idVars, linkVars, restVars >>

\* the regroup by the remapped identifiers, when the remap drops one
Regroup ==
  /\ bPc = "collapsed"
  /\ IF regroup_needed(id_map)
     THEN LET aliases == remap_aliases(df_alias, id_map)
          IN  /\ dfm' = WithAliasCount(regroup(dfm, id_map), aliases)
              /\ df_alias' = aliases
     ELSE UNCHANGED << dfm, df_alias >>
  /\ bPc' = "done"
  /\ UNCHANGED << rows, alias_rows, df, dfm_exact, id_map, idVars, linkVars, restVars >>

Init == BuildInit

Next ==
  \/ AddLinguist
  \/ AddWikipedia
  \/ AddEsolang
  \/ AddPldb
  \/ BuildFrame
  \/ GroupBy
  \/ FuzzyCollapse
  \/ Regroup

Spec == Init /\ [][Next]_vars

(***************************************************************************)
(* Claims about the build stage                                            *)
(***************************************************************************)

Grouped == bPc \in { "grouped", "collapsed", "done" }

IdsOf(catalog) == { catalog[i].lang_id : i \in DOMAIN catalog }

\* the identifier under which the written catalog holds identifier x
FinalId(x) == IF regroup_needed(id_map) THEN id_map[x] ELSE x

RowsWithId(catalog, x) == { i \in DOMAIN catalog : catalog[i].lang_id = x }

CSharpNames == { Str_CSharpSym, Str_CSharpWord, Str_CSharpId }

CppNames == { Str_CppSym, Str_CppWord }

SameFamily(n, m) ==
  \/ n \in CSharpNames /\ m \in CSharpNames
  \/ n \in CppNames /\ m \in CppNames

\* C3: "C#", "C sharp" and "c-sharp" get one lang_id, and so do "C++" and
\* "c plus plus"; two such records from different sources end in exactly one
\* catalog row, whose source_flags holds both sources.
C3_SpellingsMerge ==
  /\ \A n \in CSharpNames : make_id(n) = Str_CSharpId
  /\ \A n \in CppNames :
       make_id(n) = << "c", "-", "p", "l", "u", "s", "-", "p", "l", "u", "s" >>
  /\ \A i, j \in DOMAIN rows :
       ( /\ SameFamily(rows[i].canonical_name, rows[j].canonical_name)
         /\ SourceOf(rows[i]) # SourceOf(rows[j]) )
       => /\ rows[i].lang_id = rows[j].lang_id
          /\ Grouped =>
               /\ Cardinality(RowsWithId(dfm_exact, rows[i].lang_id)) = 1
               /\ \A k \in RowsWithId(dfm_exact, rows[i].lang_id) :
                    { SourceOf(rows[i]), SourceOf(rows[j]) }
                      \subseteq Range(dfm_exact[k].source_flags)
          /\ bPc = "done" =>
               /\ Cardinality(RowsWithId(dfm, FinalId(rows[i].lang_id))) = 1
               /\ \A k \in RowsWithId(dfm, FinalId(rows[i].lang_id)) :
                    { SourceOf(rows[i]), SourceOf(rows[j]) }
                      \subseteq Range(dfm[k].source_flags)

\* The registry's "C#", the encyclopedia's "C sharp" and the esolang wiki's
\* "c-sharp" have been merged into a single row.
C3_Witness ==
  /\ bPc = "done"
  /\ Len(rows) = 3
  /\ { rows[i].canonical_name : i \in DOMAIN rows } = CSharpNames
  /\ Len(dfm) = 1
  /\ dfm[1].lang_id = Str_CSharpId
  /\ dfm[1].source_flags = << "esolang", "linguist", "wikipedia" >>

NonEmptyUniqueIds(catalog) ==
  /\ \A i \in DOMAIN catalog : catalog[i].lang_id # << >>
  /\ \A i, j \in DOMAIN catalog :
       catalog[i].lang_id = catalog[j].lang_id => i = j

\* C4: after the exact-key group-by and after the regroup of the fuzzy
\* collapse, every catalog row has a non-empty lang_id and no two rows share
\* one.
C4_UniqueNonEmptyIds ==
  Grouped => NonEmptyUniqueIds(dfm_exact) /\ NonEmptyUniqueIds(dfm)

\* Three records, two of them with the same key, were grouped into two rows
\* and the fuzzy collapse folded those into one.
C4_Witness ==
  /\ bPc = "done"
  /\ Len(rows) = 3
  /\ Len(dfm_exact) = 2
  /\ Len(dfm) = 1
  /\ regroup_needed(id_map)

Permute(col, p) == [ i \in DOMAIN col |-> col[p[i]] ]

IsSortedStrings(seq) ==
  \A i \in 1..(Len(seq) - 1) : StrLess(seq[i], seq[i + 1])

IsSortedTags(seq) ==
  \A i \in 1..(Len(seq) - 1) : TagRank(seq[i]) < TagRank(seq[i + 1])

\* The merge groups of a frame under the given keys are order-independent in
\* source_flags and extensions, and the merged row holds the sorted unions.
UnionMergesCommute(frame, keys, catalog) ==
  \A k \in Range(keys) :
    LET g == GroupOf(frame, keys, k)
        flags == [ i \in DOMAIN g |-> g[i].source_flags ]
        exts == [ i \in DOMAIN g |-> g[i].extensions ]
    IN  /\ \A p \in Permutations(DOMAIN g) :
             /\ merge_flags(Permute(flags, p)) = merge_flags(flags)
             /\ merge_space(Permute(exts, p)) = merge_space(exts)
        /\ \A m \in RowsWithId(catalog, k) :
             /\ catalog[m].source_flags = merge_flags(flags)
             /\ Range(catalog[m].source_flags) =
                  UNION { Range(flags[i]) : i \in DOMAIN flags }
             /\ IsSortedTags(catalog[m].source_flags)
             /\ catalog[m].extensions = merge_space(exts)
             /\ Tokens(catalog[m].extensions) =
                  UNION { Tokens(exts[i]) : i \in DOMAIN exts }
             /\ IsSortedStrings(SplitSpace(catalog[m].extensions))

\* C5: for every merge group (of the exact-key group-by and of the regroup),
\* merge_flags and merge_space give the same value for every permutation of
\* the group's records: the sorted union of the tags and the sorted union of
\* the whitespace-separated tokens.
C5_UnionMergesCommute ==
  /\ Grouped =>
       UnionMergesCommute(df, [ i \in DOMAIN df |-> df[i].lang_id ], dfm_exact)
  /\ (bPc = "done" /\ regroup_needed(id_map)) =>
       UnionMergesCommute(dfm_exact,
                          [ i \in DOMAIN dfm_exact |-> id_map[dfm_exact[i].lang_id] ],
                          dfm)

\* Three records were grouped under two keys and the two rows, whose flags and
\* extension tokens differ, were then merged by the regroup.
C5_Witness ==
  /\ bPc = "done"
  /\ regroup_needed(id_map)
  /\ Len(df) = 3
  /\ Len(dfm_exact) = 2
  /\ Len(dfm) = 1
  /\ dfm_exact[1].source_flags # dfm_exact[2].source_flags
  /\ dfm_exact[1].extensions # << >>
  /\ dfm_exact[2].extensions # << >>
  /\ Tokens(dfm_exact[1].extensions) # Tokens(dfm_exact[2].extensions)
  /\ dfm[1].extensions # dfm_exact[1].extensions \o SPACE \o dfm_exact[2].extensions

FirstNonEmptyFields ==
  { "canonical_name", "paradigms", "typing", "designed_by", "influenced_by",
    "first_appeared", "homepage" }

\* the rows of the frame come in source-priority order
InPriorityOrder ==
  \A i, j \in DOMAIN rows :
    i < j => SourceRank(SourceOf(rows[i])) <= SourceRank(SourceOf(rows[j]))

\* C6: in the exact-key aggregation, the merged value of every first-non-empty
\* string field is the value of the earliest record, in source-priority order,
\* that has a non-empty value, and is empty only if every record's value is.
C6_FirstNonEmptyByPriority ==
  Grouped =>
    /\ InPriorityOrder
    /\ Len(df) = Len(rows)
    /\ \A i \in DOMAIN df : SourceOf(rows[i]) \in Range(df[i].source_flags)
    /\ \A m \in DOMAIN dfm_exact : \A f \in FirstNonEmptyFields :
         LET g == { i \in DOMAIN df : df[i].lang_id = dfm_exact[m].lang_id }
             filled == { i \in g : df[i][f] # << >> }
         IN  IF filled = { } THEN dfm_exact[m][f] = << >>
             ELSE \E i \in filled :
                    /\ \A j \in filled : i <= j
                    /\ dfm_exact[m][f] = df[i][f]

\* A registry record and two knowledge-base records with different names and
\* different paradigms were merged: the registry's name and the first
\* knowledge-base paradigm were kept.
C6_Witness ==
  /\ bPc = "grouped"
  /\ Len(df) = 3
  /\ Len(dfm_exact) = 1
  /\ SourceOf(rows[1]) = "linguist"
  /\ SourceOf(rows[2]) = "pldb"
  /\ SourceOf(rows[3]) = "pldb"
  /\ df[2].canonical_name # df[1].canonical_name
  /\ df[2].paradigms # << >>
  /\ df[3].paradigms # << >>
  /\ df[3].paradigms # df[2].paradigms
  /\ dfm_exact[1].canonical_name = df[1].canonical_name
  /\ dfm_exact[1].paradigms = df[2].paradigms

\* b is a followed by one digit
AppendedDigit(a, b) ==
  /\ Len(b) = Len(a) + 1
  /\ Upto(b, Len(a)) = a
  /\ b[Len(b)] \in Digits

\* a and b differ in exactly one position
OneSubstitution(a, b) ==
  /\ Len(a) = Len(b)
  /\ Cardinality({ i \in DOMAIN a : a[i] # b[i] }) = 1

NearDuplicates(a, b) ==
  /\ a # b
  /\ a[1] = b[1]
  /\ AppendedDigit(a, b) \/ AppendedDigit(b, a) \/ OneSubstitution(a, b)

OneRowForBoth(a, b) ==
  /\ FinalId(a) = FinalId(b)
  /\ Cardinality(RowsWithId(dfm, FinalId(a))) = 1
  /\ RowsWithId(dfm, a) \cup RowsWithId(dfm, b) \subseteq RowsWithId(dfm, FinalId(a))

\* C7 as claimed: any two catalog identifiers that share their first
\* character and differ only by one appended trailing digit or by one
\* substituted character end in a single row of the output catalog.
C7_NearDuplicatesCollapse ==
  bPc = "done" =>
    \A a, b \in IdsOf(dfm_exact) : NearDuplicates(a, b) => OneRowForBoth(a, b)

\* an identifier of the catalog, other than a and b, similar to a or to b
HasThirdSimilar(a, b) ==
  \E c \in IdsOf(dfm_exact) \ { a, b } :
    Similar(a, c) \/ Similar(c, a) \/ Similar(b, c) \/ Similar(c, b)

LongId ==
  << "c", "-", "p", "l", "u", "s", "-", "p", "l", "u", "s", "-", "s", "h", "a",
     "r", "p", "s" >>

\* C7 as amended: two catalog identifiers that share their first character and
\* whose similarity ratio is at least 94, neither of them similar to a third
\* identifier, end in a single row of the output catalog. One appended digit
\* gives that ratio only from 8 characters on, one substituted character only
\* from 17 characters on; a pair below the threshold that is similar to no
\* other identifier is left as two rows.
C7_SimilarPairsCollapse ==
  /\ bPc = "done" =>
       \A a, b \in IdsOf(dfm_exact) :
         (a # b /\ ~HasThirdSimilar(a, b)) =>
           IF Similar(a, b) THEN regroup_needed(id_map) /\ OneRowForBoth(a, b)
           ELSE FinalId(a) # FinalId(b)
  /\ bPc = "collapsed" =>
       \A k \in 1..(Len(LongId) - 1) :
         /\ ratio_at_least(Upto(LongId, k), Upto(LongId, k) \o << "2" >>,
                           FuzzThreshold) <=> k >= 8
         /\ ratio_at_least(Upto(LongId, k - 1) \o << "x" >>,
                           Upto(LongId, k - 1) \o << "y" >>,
                           FuzzThreshold) <=> k >= 17

\* "c-plus-plus" and "c-plus-plus2", with no third similar identifier, were
\* collapsed into one row.
C7_Witness ==
  /\ bPc = "done"
  /\ LET a == << "c", "-", "p", "l", "u", "s", "-", "p", "l", "u", "s" >>
         b == a \o << "2" >>
     IN  /\ { a, b } \subseteq IdsOf(dfm_exact)
         /\ ~HasThirdSimilar(a, b)
         /\ OneRowForBoth(a, b)
         /\ Len(dfm) < Len(dfm_exact)

\* C8: after the regroup, the source_flags of every output row is the union
\* of the source_flags of the rows remapped to its lang_id, every row is
\* remapped to an output row, and so no source tag is lost.
C8_CollapseKeepsFlags ==
  (bPc = "done" /\ regroup_needed(id_map)) =>
    /\ \A o \in DOMAIN dfm :
         Range(dfm[o].source_flags) =
           UNION { Range(dfm_exact[i].source_flags) :
                     i \in { k \in DOMAIN dfm_exact :
                               id_map[dfm_exact[k].lang_id] = dfm[o].lang_id } }
    /\ \A i \in DOMAIN dfm_exact :
         \E o \in DOMAIN dfm :
           /\ dfm[o].lang_id = id_map[dfm_exact[i].lang_id]
           /\ Range(dfm_exact[i].source_flags) \subseteq Range(dfm[o].source_flags)

\* Two rows with different flags were collapsed into a row that holds the
\* flags of both.
C8_Witness ==
  /\ bPc = "done"
  /\ regroup_needed(id_map)
  /\ \E i, j \in DOMAIN dfm_exact : \E o \in DOMAIN dfm :
       /\ i # j
       /\ id_map[dfm_exact[i].lang_id] = dfm[o].lang_id
       /\ id_map[dfm_exact[j].lang_id] = dfm[o].lang_id
       /\ ~(Range(dfm_exact[i].source_flags) \subseteq Range(dfm_exact[j].source_flags))
       /\ ~(Range(dfm_exact[j].source_flags) \subseteq Range(dfm_exact[i].source_flags))
       /\ Range(dfm[o].source_flags) =
            Range(dfm_exact[i].source_flags) \cup Range(dfm_exact[j].source_flags)

(***************************************************************************)
(* The linkers: main() of augment_with_pygments.py, then main() of         *)
(* augment_with_rosettacode.py on what it wrote, each run twice on the     *)
(* same catalog                                                            *)
(***************************************************************************)

MaxMasterRows == 2

\* rows of the catalog read_csv returns; an empty cell is NaN
MasterRowPool ==
  { [ canonical_name |-> << "V", "i", "m", " ", "S", "c", "r", "i", "p", "t" >>,
      hyperpolyglot_name |-> << >>,
      extensions |-> << ".", "v", "i", "m" >> ],
    [ canonical_name |-> << "V", "i", "m", "s", "c", "r", "i", "p", "t", " ", "9" >>,
      hyperpolyglot_name |-> << >>,
      extensions |-> << "*", ".", "v", "i", "m", " ", ".", "m", "o", "j", "o" >> ],
    [ canonical_name |-> << "L", "o", "g", "t", "a", "l", "k" >>,
      hyperpolyglot_name |-> << >>,
      extensions |-> << ".", "l", "g", "t", ";", ".", "p", "r", "o" >> ],
    [ canonical_name |-> << "C", "s" >>,
      hyperpolyglot_name |-> << "C", " ", "S", "h", "a", "r", "p" >>,
      extensions |-> << ".", "c", "s" >> ],
    [ canonical_name |-> << "C", "#" >>,
      hyperpolyglot_name |-> << "C", "#" >>,
      extensions |-> << ".", "v", "i", "m" >> ],
    [ canonical_name |-> << "C", "h" >>,
      hyperpolyglot_name |-> << >>,
      extensions |-> << ".", "c", " ", ".", "h" >> ],
    [ canonical_name |-> << "V", "i", "m", "9" >>,
      hyperpolyglot_name |-> << " " >>,
      extensions |-> << ".", "V", "I", "M" >> ],
    [ canonical_name |-> << "V", "i", "s", "u", "a", "l", " ", "B", "a", "s", "i", "c", " ", "5" >>,
      hyperpolyglot_name |-> << >>,
      extensions |-> << >> ],
    [ canonical_name |-> << "V", "i", "s", "u", "a", "l", " ", "B", "a", "s", "i", "c", " ", "6" >>,
      hyperpolyglot_name |-> << >>,
      extensions |-> << ".", "p", "r", "o" >> ],
    [ canonical_name |-> << "E", "C", "L", "i", "P", "S", "e", " ", "C", "L", "P" >>,
      hyperpolyglot_name |-> << >>,
      extensions |-> << ".", "e", "c", "l", " ", ".", "v", "i", "m" >> ] }

\* the titles of the language categories of Rosetta Code, "Category:" cut off
main_titles ==
  << << "C", " ", "s", "h", "a", "r", "p" >>,
     << "P", "r", "o", "l", "o", "g" >>,
     << "V", "i", "m", " ", "S", "c", "r", "i", "p", "t" >>,
     << "V", "i", "s", "u", "a", "l", " ", "B", "a", "s", "i", "c", " ", "7" >>,
     << "W", "h", "i", "t", "e", "s", "p", "a", "c", "e" >> >>

MasterColumns == << "canonical_name", "hyperpolyglot_name", "extensions" >>

\* candidates of main(): ["hyperpolyglot_name", args.langcol] if --langcol is
\* given, the default list if not
LangCandidates(option) ==
  IF option # << >> THEN << "hyperpolyglot_name" >> \o option
  ELSE LangColCandidates

PygIndexes == build_pygments_indexes(LEXERS)

\* fname_index as the processes of the runs may iterate over its sets
FnameIterations ==
  IterationsOfAll(PygIndexes.fname_index, DOMAIN PygIndexes.fname_index)

LexerOf(disp) == LEXERS[CHOOSE i \in DOMAIN LEXERS : LEXERS[i].disp = disp]

\* the row main() of augment_with_pygments.py writes for a catalog row and
\* its match, as read_csv returns it
PygmentsRow(row, match) ==
  [ canonical_name |-> row.canonical_name,
    hyperpolyglot_name |-> row.hyperpolyglot_name,
    extensions |-> row.extensions,
    pygments_name |-> IF match = None THEN << >> ELSE match,
    in_pygments |-> IF match = None THEN << "F", "a", "l", "s", "e" >>
                    ELSE << "T", "r", "u", "e" >>,
    pygments_aliases |->
      IF match = None THEN << >> ELSE Join(<< ";" >>, LexerOf(match).aliases),
    pygments_filenames |->
      IF match = None THEN << >> ELSE Join(<< ";" >>, LexerOf(match).filenames) ]

PygmentsColumns ==
  MasterColumns
    \o << "pygments_name", "in_pygments", "pygments_aliases", "pygments_filenames" >>

\* rc_df["rosettacode_name"] after sort_values("rosettacode_name")
rc_names == SortStrings(Range(main_titles))

\* a loop that writes the name of every entry that maps to a row on every row
AssignAll_every_row(names, index, candidates, column) ==
  LET mapped == SelectSeq(names,
                          LAMBDA t : map_rosetta_to_master(t, index, candidates) # NoRow)
  IN  IF mapped = << >> THEN column
      ELSE [ i \in DOMAIN column |-> mapped[Len(mapped)] ]

RECURSIVE AssignAll(_, _, _, _)
\* the loop of main() over rc_df: a later entry that maps to the same row
\* overwrites the earlier one
AssignAll(names, index, candidates, column) ==
  IF names = << >> THEN column
  ELSE LET ridx == map_rosetta_to_master(Head(names), index, candidates)
       IN  AssignAll(Tail(names), index, candidates,
                     IF ridx = NoRow THEN column
                     ELSE [ column EXCEPT ![ridx] = Head(names) ])

\* the rows of rc_df that map to no row of the catalog
Unmatched(names, index, candidates) ==
  SelectSeq(names,
            LAMBDA t : map_rosetta_to_master(t, index, candidates) = NoRow)

LinkInit ==
  /\ IdIdle
  /\ BuildIdle
  /\ RestIdle
  /\ lPc = "load"
  /\ langcol \in { << >>, << "canonical_name" >> }
  /\ master = << >>
  /\ run = 1
  /\ pyg_matches = << << >>, << >> >>
  /\ pyg_only = << Unset, Unset >>
  /\ rc_name = << Unset, Unset >>
  /\ rc_missing = << Unset, Unset >>

\* pd.read_csv(args.in_csv), one row at a time; the rows of the catalog differ
\* in their lang_id, so no row is read twice
ReadCatalogRow ==
  /\ lPc = "load"
  /\ Len(master) < MaxMasterRows
  /\ \E row \in MasterRowPool \ Range(master) : master' = Append(master, row)
  /\ UNCHANGED << lPc, langcol, run, pyg_matches, pyg_only, rc_name, rc_missing,
                  idVars, buildVars, restVars >>

StartPygments ==
  /\ lPc = "load"
  /\ lPc' = "pygments"
  /\ UNCHANGED << langcol, master, run, pyg_matches, pyg_only, rc_name,
                  rc_missing, idVars, buildVars, restVars >>

\* one turn of the loop "for _, row in df.iterrows()"
MatchRow ==
  /\ lPc = "pygments"
  /\ Len(pyg_matches[run]) < Len(master)
  /\ LET row == master[Len(pyg_matches[run]) + 1]
         master_name == pick_master_name(row, LangCandidates(langcol))
         ext_tokens == gather_row_ext_tokens(row, ExtCols)
     IN  \E fname_index \in FnameIterations :
           pyg_matches' =
             [ pyg_matches EXCEPT ![run] =
                 Append(@, match_to_pygments(master_name, ext_tokens,
                                             PygIndexes.alias_index,
                                             fname_index,
                                             builtin_alias_table)) ]
  /\ UNCHANGED << lPc, langcol, master, run, pyg_only, rc_name, rc_missing,
                  idVars, buildVars, restVars >>

\* the end of main(): the Pygments-only report; the second run follows the
\* first, the Rosetta Code linker the second
WritePygmentsOnly ==
  /\ lPc = "pygments"
  /\ Len(pyg_matches[run]) = Len(master)
  /\ pyg_only' = [ pyg_only EXCEPT ![run] = pygments_only(pyg_matches[run]) ]
  /\ IF run = 1
     THEN run' = 2 /\ lPc' = lPc
     ELSE run' = 1 /\ lPc' = "rosetta"
  /\ UNCHANGED << langcol, master, pyg_matches, rc_name, rc_missing,
                  idVars, buildVars, restVars >>

\* main() of augment_with_rosettacode.py on the catalog the Pygments linker
\* wrote in the same run
LinkRosetta ==
  /\ lPc = "rosetta"
  /\ LET catalog == [ i \in DOMAIN master |->
                        PygmentsRow(master[i], pyg_matches[run][i]) ]
         index == build_master_index_all_strings(catalog, PygmentsColumns)
     IN  \E candidates \in KeyOrders(index.keys) :
           /\ rc_name' =
                [ rc_name EXCEPT ![run] =
                    AssignAll(rc_names, index.row, candidates,
                              [ i \in DOMAIN master |-> None ]) ]
           /\ rc_missing' =
                [ rc_missing EXCEPT ![run] =
                    Unmatched(rc_names, index.row, candidates) ]
  /\ IF run = 1
     THEN run' = 2 /\ lPc' = lPc
     ELSE run' = run /\ lPc' = "done"
  /\ UNCHANGED << langcol, master, pyg_matches, pyg_only, idVars, buildVars, restVars >>

LinkNext ==
  \/ ReadCatalogRow
  \/ StartPygments
  \/ MatchRow
  \/ WritePygmentsOnly
  \/ LinkRosetta

SpecLink == LinkInit /\ [][LinkNext]_vars

(***************************************************************************)
(* Claims about the linkers                                                *)
(***************************************************************************)

VisualBasic ==
  << "V", "i", "s", "u", "a", "l", " ", "B", "a", "s", "i", "c", " " >>

Row5 ==
  CHOOSE r \in MasterRowPool : r.canonical_name = VisualBasic \o << "5" >>

Row6 ==
  CHOOSE r \in MasterRowPool : r.canonical_name = VisualBasic \o << "6" >>

\* C9: two runs of a linker on the same catalog and the same foreign index
\* give every catalog row the same foreign entry and write the same missing
\* report, whatever the order in which the sets and the dicts are iterated:
\* for the Pygments linker row by row as the runs proceed and for its
\* Pygments-only report, for the Rosetta Code linker for the rosettacode_name
\* column and the Rosetta-only report.
C9_LinkerRunsAgree ==
  /\ lPc # "idle" =>
       /\ \A i \in DOMAIN pyg_matches[1] \cap DOMAIN pyg_matches[2] :
            pyg_matches[1][i] = pyg_matches[2][i]
       /\ (pyg_only[1] # Unset /\ pyg_only[2] # Unset) => pyg_only[1] = pyg_only[2]
       /\ (rc_name[1] # Unset /\ rc_name[2] # Unset) =>
            /\ rc_name[1] = rc_name[2]
            /\ rc_missing[1] = rc_missing[2]
  /\ lPc = "done" =>
       /\ Len(pyg_matches[1]) = Len(master)
       /\ Len(pyg_matches[2]) = Len(master)
       /\ pyg_only[1] # Unset /\ pyg_only[2] # Unset
       /\ rc_name[1] # Unset /\ rc_name[2] # Unset

\* Both linkers ran twice on a catalog where the orders matter: a row linked
\* through the token ".pro", which two Pygments entries declare, and two rows
\* equally close to the Rosetta Code language "Visual Basic 7".
C9_Witness ==
  /\ lPc = "done"
  /\ master = << Row5, Row6 >>
  /\ pyg_matches[2] = << None, << "P", "r", "o", "l", "o", "g" >> >>
  /\ Cardinality(PygIndexes.fname_index[<< ".", "p", "r", "o" >>]) = 2
  /\ rc_name[2][2] = VisualBasic \o << "7" >>
  /\ rc_name[2][1] = None
  /\ rc_missing[2] # << >>

\* the name and the extension tokens main() gives match_to_pygments for a row
MasterNameOf(row) == pick_master_name(row, LangCandidates(langcol))

ExtTokensOf(row) == gather_row_ext_tokens(row, ExtCols)

NameMatchOf(row) ==
  NameTier(MasterNameOf(row), PygIndexes.alias_index, builtin_alias_table)

\* the display names of the entries whose filename patterns include "*.vim"
VimEntries ==
  { LEXERS[i].disp :
      i \in { k \in DOMAIN LEXERS :
                << "*", ".", "v", "i", "m" >> \in Range(LEXERS[k].filenames) } }

DotVim == << ".", "v", "i", "m" >>

\* the rows matched so far, with the run that matched them
Matched == { p \in { 1, 2 } \X DOMAIN master : p[2] \in DOMAIN pyg_matches[p[1]] }

\* the name tier decides whenever it finds something
NameMatchWins ==
  \A p \in Matched :
    NameMatchOf(master[p[2]]) # None
      => pyg_matches[p[1]][p[2]] = NameMatchOf(master[p[2]])

\* C10 as claimed: a row whose name matches is linked to the name match
\* whatever its extension tokens, and a row whose name matches nothing and
\* that declares the token ".vim" is linked to the entry whose filename
\* patterns include "*.vim".
C10_VimRowLinksVimEntry ==
  lPc # "idle" =>
    /\ NameMatchWins
    /\ \A p \in Matched :
         ( /\ NameMatchOf(master[p[2]]) = None
           /\ DotVim \in Range(ExtTokensOf(master[p[2]])) )
         => pyg_matches[p[1]][p[2]] \in VimEntries

\* the tokens of the row that fname_index holds
IndexedTokens(row) ==
  Range(ExtTokensOf(row)) \cap DOMAIN PygIndexes.fname_index

\* token t is longer than u, or as long and greater
TokenBeats(t, u) ==
  \/ Len(u) < Len(t)
  \/ Len(u) = Len(t) /\ StrLess(u, t)

\* C10 as amended: a row whose name matches is linked to the name match
\* whatever its extension tokens; a row whose name matches nothing is linked
\* to an entry indexed under the longest indexed token it declares (of equally
\* long tokens the greater one, of the entries of that token the one with the
\* greatest display name), so that a row whose only indexed token is ".vim"
\* is linked to the entry whose filename patterns include "*.vim"; a row
\* without a name match and without an indexed token is linked to nothing.
C10_NameTierThenLongestToken ==
  lPc # "idle" =>
    /\ NameMatchWins
    /\ \A p \in Matched :
         NameMatchOf(master[p[2]]) = None =>
           LET toks == IndexedTokens(master[p[2]])
               match == pyg_matches[p[1]][p[2]]
           IN  /\ toks = { } => match = None
               /\ toks # { } =>
                    \E t \in toks :
                      /\ \A u \in toks \ { t } : TokenBeats(t, u)
                      /\ match \in PygIndexes.fname_index[t]
                      /\ \A d \in PygIndexes.fname_index[t] \ { match } :
                           StrLess(d, match)
               /\ toks = { DotVim } => match \in VimEntries

\* A row named "C#" that declares ".vim" was linked to the entry "C#" through
\* its name, and a row whose name matches nothing and that declares ".VIM"
\* was linked to the entry "VimL" through the token ".vim".
C10_Witness ==
  /\ lPc = "done"
  /\ Len(master) = 2
  /\ master[1].hyperpolyglot_name = << "C", "#" >>
  /\ ExtTokensOf(master[1]) = << DotVim >>
  /\ pyg_matches[1][1] = << "C", "#" >>
  /\ NameMatchOf(master[2]) = None
  /\ IndexedTokens(master[2]) = { DotVim }
  /\ pyg_matches[1][2] = << "V", "i", "m", "L" >>
  /\ VimEntries = { << "V", "i", "m", "L" >> }

\* C11: no token shorter than three characters, dotted or not, produces a
\* link of the filename tier: the filename index holds no such token, and
\* every row linked without a name match declares a token of at least three
\* characters under which the filename index holds the linked entry.
C11_FilenameLinkNeedsLongToken ==
  lPc # "idle" =>
    /\ \A t \in DOMAIN PygIndexes.fname_index : Len(t) >= 3
    /\ \A p \in Matched :
         LET row == master[p[2]]
             match == pyg_matches[p[1]][p[2]]
         IN  (NameMatchOf(row) = None /\ match # None) =>
               \E t \in IndexedTokens(row) :
                 Len(t) >= 3 /\ match \in PygIndexes.fname_index[t]

\* A row whose name matches nothing and whose only tokens are ".c" and ".h",
\* both of them patterns of the entry "C", was matched and linked to nothing.
C11_Witness ==
  /\ lPc = "done"
  /\ \E i \in DOMAIN master :
       /\ NameMatchOf(master[i]) = None
       /\ ExtTokensOf(master[i]) = << << ".", "c" >>, << ".", "h" >> >>
       /\ << "*", ".", "c" >> \in Range(LexerOf(<< "C" >>).filenames)
       /\ pyg_matches[1][i] = None
       /\ pyg_matches[2][i] = None

(***************************************************************************)
(* Claims about the knowledge base                                         *)
(***************************************************************************)

IsSlash(c) == c = "/"

\* the directories of a path: its segments but the last
Directories(pstr) ==
  LET segs == SplitEach(IsSlash, pstr) IN Range(Upto(segs, Len(segs) - 1))

\* a directory of the path is one of the denylisted words, in any case
DenylistedPath(f) == \E d \in Directories(f.path) : Lower(d) \in BAD_PATH_WORDS

\* the word a string starts with: its longest prefix of word characters
FirstWord(s) ==
  LET stops == { i \in DOMAIN s : ~IsUnicodeWord(s[i]) }
  IN  IF stops = { } THEN s
      ELSE Upto(s, (CHOOSE i \in stops : \A j \in stops : i <= j) - 1)

DenylistedName(f) ==
  Lower(FirstWord(PldbName(f.props, f.path))) \in BAD_NAME_WORDS

UnderConcepts(f) ==
  << "c", "o", "n", "c", "e", "p", "t", "s" >> \in Directories(f.path)

HasLangProp(f) == \E k \in DOMAIN f.props : k \in LANG_PROPS_HINTS

\* the raw rows of the knowledge base with the name of file f
PldbRowsOf(f) ==
  { i \in DOMAIN rows :
      SourceOf(rows[i]) = "pldb"
        /\ rows[i].canonical_name = PldbName(f.props, f.path) }

MayBeLanguage(f) ==
  /\ UnderConcepts(f) \/ HasLangProp(f)
  /\ ~DenylistedPath(f)
  /\ ~DenylistedName(f)

\* C12: a record of the knowledge base is accepted only if its path is under
\* concepts/ or it has a language-indicating property; a record with a
\* denylisted directory in its path or a name that starts with a denylisted
\* word is rejected whatever its path and properties; a rejected record
\* contributes no raw row and no row of the catalog. (Every file of the model
\* has a name of its own, which no other source uses for a rejected file, so
\* a row is traced to its file by its name.)
C12_RejectedRecordsStayOut ==
  bPc # "idle" =>
    /\ \A i \in DOMAIN rows :
         SourceOf(rows[i]) = "pldb" =>
           \E f \in PldbFiles : i \in PldbRowsOf(f) /\ MayBeLanguage(f)
    /\ \A f \in PldbFiles :
         ~MayBeLanguage(f) =>
           /\ PldbRowsOf(f) = { }
           /\ \A i \in DOMAIN dfm :
                dfm[i].lang_id # make_id(PldbName(f.props, f.path))

\* The catalog was built from a record under concepts/ and a record outside
\* it with a language-indicating property, while the knowledge base holds a
\* file under concepts/ with such a property and a denylisted directory, a
\* file under concepts/ with a denylisted name, and a file with neither
\* evidence.
C12_Witness ==
  /\ bPc = "done"
  /\ \E f, g \in PldbFiles :
       /\ UnderConcepts(f) /\ PldbRowsOf(f) # { }
       /\ ~UnderConcepts(g) /\ HasLangProp(g) /\ PldbRowsOf(g) # { }
  /\ \E f \in PldbFiles : UnderConcepts(f) /\ HasLangProp(f) /\ DenylistedPath(f)
  /\ \E f \in PldbFiles :
       UnderConcepts(f) /\ ~DenylistedPath(f) /\ DenylistedName(f)
  /\ \E f \in PldbFiles :
       ~UnderConcepts(f) /\ ~HasLangProp(f) /\ ~DenylistedPath(f)
         /\ ~DenylistedName(f)

\* a dot, then one or more lower-case letters, digits, "_", "+" or "-"
WellFormedExt(tok) ==
  /\ Len(tok) >= 2
  /\ tok[1] = "."
  /\ \A i \in 2..Len(tok) : tok[i] \in LowerLetters \cup Digits \cup { "_", "+", "-" }

\* C13: in the catalog after the exact group-by and in the catalog after the
\* regroup, every whitespace-separated token of every row's extensions is a
\* well-formed extension, whichever source contributed it.
C13_ExtensionsWellFormed ==
  Grouped =>
    \A catalog \in { dfm_exact, dfm } :
      \A i \in DOMAIN catalog :
        \A tok \in Tokens(catalog[i].extensions) : WellFormedExt(tok)

\* the distinct alias strings of the alias table that refer to an identifier
AliasStringsOf(id) ==
  { df_alias[i].alias : i \in { k \in DOMAIN df_alias : df_alias[k].lang_id = id } }

\* C14: the alias_count of every catalog row is the number of distinct alias
\* strings that refer to its identifier, the canonical name counted once and
\* an alias string that two sources contribute counted once.
C14_AliasCountIsDistinctStrings ==
  Grouped =>
    \A i \in DOMAIN dfm :
      dfm[i].alias_count =
        Cardinality(AliasStringsOf(dfm[i].lang_id) \cup { dfm[i].canonical_name })

(***************************************************************************)
(* Claims about the assignment of the foreign entries                      *)
(***************************************************************************)

\* no two places of a column carry the same foreign entry
NoSharedEntry(column) ==
  \A i, j \in DOMAIN column :
    (i # j /\ column[i] # None) => column[i] # column[j]

\* C15 as claimed: in every linker invocation no two rows of the enriched
\* catalog carry the same foreign entry name.
C15_EntryOnOneRow ==
  lPc # "idle" =>
    \A r \in { 1, 2 } :
      /\ NoSharedEntry(pyg_matches[r])
      /\ rc_name[r] # Unset => NoSharedEntry(rc_name[r])

\* C15 as amended: in the Rosetta Code linker no two rows of the enriched
\* catalog carry the same foreign entry name. (The Pygments linker links
\* every row on its own, and two rows may carry the same entry.)
C15_RosettaEntryOnOneRow ==
  lPc # "idle" =>
    \A r \in { 1, 2 } : rc_name[r] # Unset => NoSharedEntry(rc_name[r])

\* The Rosetta Code linker ran on a catalog of two rows and linked both, each
\* to an entry of its own, while three entries map to the two rows.
C15_Witness ==
  /\ lPc = "done"
  /\ Len(master) = 2
  /\ rc_name[1][1] # None
  /\ rc_name[1][2] # None
  /\ rc_name[1][1] # rc_name[1][2]
  /\ Len(rc_missing[1]) = Len(rc_names) - 3

\* every entry is on a row or in the report, and none is in both
LinkedOrMissing(entries, column, report) ==
  \A e \in entries : (e \in Range(column)) # (e \in Range(report))

\* C16: at the end of every invocation of the Pygments and of the Rosetta
\* Code linker, every foreign entry is either the linked foreign name of
\* some row of the enriched catalog or listed in the missing report of the
\* invocation, never both and never neither, also when several entries
\* resolve to the same row.
C16_EntryLinkedOrMissing ==
  lPc # "idle" =>
    \A r \in { 1, 2 } :
      /\ pyg_only[r] # Unset =>
           LinkedOrMissing(DispNames, pyg_matches[r], pyg_only[r])
      /\ rc_name[r] # Unset =>
           LinkedOrMissing(Range(rc_names), rc_name[r], rc_missing[r])

(***************************************************************************)
(* The name tiers of the three linkers, each called on the same name       *)
(***************************************************************************)

\* parse_languages_rs(languages_rs): names of the LANGUAGES array
hp_list ==
  << << "C" >>,
     << "C", "#" >>,
     << "C", "+", "+" >>,
     << "H", "a", "n", "d", "l", "e", "b", "a", "r", "s" >>,
     << "J", "a", "v", "a", "S", "c", "r", "i", "p", "t" >>,
     << "M", "u", "s", "t", "a", "c", "h", "e" >>,
     << "S", "h", "e", "l", "l" >>,
     << "V", "i", "m", " ", "s", "c", "r", "i", "p", "t" >> >>

hp_idx == build_index(hp_list)

\* LEXERS with the two JSON lexers of _mapping.py
TierLexers ==
  LEXERS
    \o << [ disp |-> << "J", "S", "O", "N" >>,
            aliases |-> << << "j", "s", "o", "n" >>,
                         << "j", "s", "o", "n", "-", "o", "b", "j", "e", "c", "t" >> >>,
            filenames |-> << << "*", ".", "j", "s", "o", "n" >> >> ],
          [ disp |-> << "J", "S", "O", "N", "5" >>,
            aliases |-> << << "j", "s", "o", "n", "5" >> >>,
            filenames |-> << << "*", ".", "j", "s", "o", "n", "5" >> >> ] >>

TierIndexes == build_pygments_indexes(TierLexers)

\* the catalog the Rosetta Code linker indexes
TierCatalog ==
  << [ canonical_name |-> << "C", "#" >>,
       hyperpolyglot_name |-> << >>,
       extensions |-> << >> ],
     [ canonical_name |-> << "C", "S", "h", "a", "r", "p" >>,
       hyperpolyglot_name |-> << >>,
       extensions |-> << >> ],
     [ canonical_name |-> << "V", "i", "m", " ", "S", "c", "r", "i", "p", "t" >>,
       hyperpolyglot_name |-> << >>,
       extensions |-> << >> ],
     [ canonical_name |-> << "V", "i", "s", "u", "a", "l", " ", "B", "a", "s", "i", "c", " ", "6" >>,
       hyperpolyglot_name |-> << >>,
       extensions |-> << >> ] >>

TierIndex == build_master_index_all_strings(TierCatalog, MasterColumns)

\* the names the tiers are called on
TierNames ==
  { << "M", "u", "s", "t", "a", "c", "h", "e" >>,
    << " ", "m", "u", "s", "t", "a", "c", "h", "e" >>,
    << "H", "a", "n", "d", "l", "e", "b", "a", "r", "s" >>,
    << "C", "#" >>,
    << "C", " ", "S", "h", "a", "r", "p" >>,
    << "C", "S", "h", "a", "r", "p" >>,
    << "C", "+", "+" >>,
    << "C", "p", "p" >>,
    << "J", "S" >>,
    << "J", "a", "v", "a", "S", "c", "r", "i", "p", "t" >>,
    << "B", "a", "s", "h" >>,
    << "S", "h", "e", "l", "l" >>,
    << "S", "h", "e", "l", "l", " ", "S", "c", "r", "i", "p", "t" >>,
    << "V", "i", "m", " ", "S", "c", "r", "i", "p", "t" >>,
    << "V", "i", "m", "s", "c", "r", "i", "p", "t" >>,
    << "V", "i", "m", " ", "s", "c", "r", "i", "p", "t", " ", "f", "i", "l", "e" >>,
    << "C", " ", "l", "a", "n", "g", "u", "a", "g", "e" >>,
    << "C", " ", "p", "r", "o", "g", "r", "a", "m", "m", "i", "n", "g", " ", "l", "a", "n", "g", "u", "a", "g", "e" >>,
    << "J", "S", "O", "N", "5" >>,
    << "J", "S", "O", "N" >>,
    << "V", "i", "s", "u", "a", "l", " ", "B", "a", "s", "i", "c", " ", "7" >>,
    << "C", "o", "b", "o", "l" >>,
    << >>,
    << "P", "r", "o", "l", "o", "g" >> }

\* the extension tokens of the row the name stands on
TierExtTokens == { << >>, << << ".", "v", "i", "m" >> >> }

TierInit ==
  /\ IdIdle
  /\ BuildIdle
  /\ LinkIdle
  /\ FetchIdle
  /\ LaterIdle
  /\ tName \in TierNames
  /\ hp_out = Unset
  /\ pyg_out = Unset
  /\ rc_out = { }

\* df[lang_col].map(lambda x: to_hp_canonical(str(x), idx, alias_map)), one cell
CallToHpCanonical ==
  /\ hp_out = Unset
  /\ hp_out' = to_hp_canonical(tName, hp_idx, hp_builtin_alias_table)
  /\ UNCHANGED << tName, pyg_out, rc_out, fetchVars, laterVars, idVars, buildVars, linkVars >>

CallMatchToPygments ==
  /\ pyg_out = Unset
  /\ \E row_ext_tokens \in TierExtTokens :
       \E fname_index \in
            IterationsOfAll(TierIndexes.fname_index, DOMAIN TierIndexes.fname_index) :
         pyg_out' = match_to_pygments(tName, row_ext_tokens, TierIndexes.alias_index,
                                      fname_index, builtin_alias_table)
  /\ UNCHANGED << tName, hp_out, rc_out, fetchVars, laterVars, idVars, buildVars, linkVars >>

CallMapRosettaToMaster ==
  /\ rc_out = { }
  /\ \E candidates \in KeyOrders(TierIndex.keys) :
       rc_out' = { map_rosetta_to_master(tName, TierIndex.row, candidates) }
  /\ UNCHANGED << tName, hp_out, pyg_out, fetchVars, laterVars, idVars, buildVars, linkVars >>

TierNext ==
  \/ CallToHpCanonical
  \/ CallMatchToPygments
  \/ CallMapRosettaToMaster

SpecTier == TierInit /\ [][TierNext]_vars

\* C17: in the name tier of each of the three linkers, a name whose
\* normalized key is a key of the foreign index is linked to the entry the
\* index holds for that key, whether or not the alias table has the key too.
C17_DirectLookupFirst ==
  LET key == normalize_key(tName)
  IN  /\ (hp_out # Unset /\ key \in DOMAIN hp_idx) => hp_out = hp_idx[key]
      /\ (pyg_out # Unset /\ key \in DOMAIN TierIndexes.alias_index) =>
           pyg_out = TierIndexes.alias_index[key]
      /\ (rc_out # { } /\ key \in DOMAIN TierIndex.row) =>
           rc_out = { TierIndex.row[key] }

(***************************************************************************)
(* The fetches of main() of build_master_list_local_pldb.py                *)
(***************************************************************************)

\* the files of data/raw
LinguistFile == "linguist_languages.yml"

WikipediaFile == "wikipedia_lang_titles.json"

EsolangFile == "esolang_language_titles.json"

RawFiles == { LinguistFile, WikipediaFile, EsolangFile }

\* the addresses the requests go to
LinguistUrl ==
  "https://raw.githubusercontent.com/github-linguist/linguist/master/lib/linguist/languages.yml"

WikipediaListUrl == "https://en.wikipedia.org/wiki/List_of_programming_languages"

WikipediaApiUrl == "https://en.wikipedia.org/w/api.php"

EsolangApiUrl == "https://esolangs.org/w/api.php"

FetchInit ==
  /\ IdIdle
  /\ BuildIdle
  /\ LinkIdle
  /\ TierIdle
  /\ LaterIdle
  /\ fPc = "linguist"
  /\ offline \in BOOLEAN
  /\ include_esolang \in BOOLEAN
  /\ raw \in SUBSET RawFiles
  /\ network = { }

\* fetch_linguist(off=args.offline): the request either answers and the file
\* is written, or raises and main() ends
fetch_linguist ==
  /\ fPc = "linguist"
  /\ IF offline /\ LinguistFile \in raw
     THEN /\ fPc' = "wikipedia"
          /\ UNCHANGED << raw, network >>
     ELSE /\ network' = network \cup { LinguistUrl }
          /\ \/ raw' = raw \cup { LinguistFile } /\ fPc' = "wikipedia"
             \/ raw' = raw /\ fPc' = "failed"
  /\ UNCHANGED << offline, include_esolang, tierVars, laterVars, idVars, buildVars, linkVars >>

\* what follows fetch_wikipedia_titles in main()
AfterWikipedia == IF include_esolang THEN "esolang" ELSE "fetched"

\* fetch_wikipedia_titles(off=args.offline): the pages of the list are
\* scraped, a failure there is swallowed; with no title found the category
\* API is asked, and a failure there ends main()
fetch_wikipedia_titles ==
  /\ fPc = "wikipedia"
  /\ IF offline /\ WikipediaFile \in raw
     THEN /\ fPc' = AfterWikipedia
          /\ UNCHANGED << raw, network >>
     ELSE \/ /\ network' = network \cup { WikipediaListUrl }
             /\ raw' = raw \cup { WikipediaFile }
             /\ fPc' = AfterWikipedia
          \/ /\ network' = network \cup { WikipediaListUrl, WikipediaApiUrl }
             /\ \/ raw' = raw \cup { WikipediaFile } /\ fPc' = AfterWikipedia
                \/ raw' = raw /\ fPc' = "failed"
  /\ UNCHANGED << offline, include_esolang, tierVars, laterVars, idVars, buildVars, linkVars >>

\* fetch_esolang_titles(off=args.offline), called if args.include_esolang
fetch_esolang_titles ==
  /\ fPc = "esolang"
  /\ IF offline /\ EsolangFile \in raw
     THEN /\ fPc' = "fetched"
          /\ UNCHANGED << raw, network >>
     ELSE /\ network' = network \cup { EsolangApiUrl }
          /\ \/ raw' = raw \cup { EsolangFile } /\ fPc' = "fetched"
             \/ raw' = raw /\ fPc' = "failed"
  /\ UNCHANGED << offline, include_esolang, tierVars, laterVars, idVars, buildVars, linkVars >>

FetchNext ==
  \/ fetch_linguist
  \/ fetch_wikipedia_titles
  \/ fetch_esolang_titles

SpecFetch == FetchInit /\ [][FetchNext]_vars

\* C18: in a build run with --offline no request is sent for any source,
\* whether or not the file of the source is in data/raw.
C18_OfflineNeverFetches ==
  offline => network = { }

(***************************************************************************)
(* Claims about the merged boolean field and the tie-break of the collapse *)
(***************************************************************************)

\* some record of the frame filed under identifier x in the catalog has
\* hello_world true
SomeHelloWorld(x, Filed(_)) ==
  \E i \in DOMAIN df : Filed(df[i].lang_id) = x /\ df[i].hello_world

\* C19: the merged hello_world of a group is true if and only if at least
\* one record of the group has hello_world true, wherever that record stands
\* in the group, in the exact-key aggregation and in the written catalog.
C19_HelloWorldIsAny ==
  Grouped =>
    /\ \A m \in DOMAIN dfm_exact :
         dfm_exact[m].hello_world =
           SomeHelloWorld(dfm_exact[m].lang_id, LAMBDA x : x)
    /\ bPc = "done" =>
         \A o \in DOMAIN dfm :
           dfm[o].hello_world = SomeHelloWorld(dfm[o].lang_id, FinalId)

\* the position of identifier x in the catalog the collapse reads
PosOf(x) == CHOOSE i \in DOMAIN dfm_exact : dfm_exact[i].lang_id = x

\* the number of source tags of identifier x
TagsOf(x) == Cardinality(Range(dfm_exact[PosOf(x)].source_flags))

\* the loops detect x and y as a similar pair
Detected(x, y) ==
  /\ x # y
  /\ IF PosOf(x) < PosOf(y) THEN Similar(x, y) ELSE Similar(y, x)

\* of the pair, w is the one the tie-break keeps: more source tags, or as
\* many and first in catalog order
Beats(w, l) ==
  \/ TagsOf(w) > TagsOf(l)
  \/ TagsOf(w) = TagsOf(l) /\ PosOf(w) < PosOf(l)

\* the identifiers that form a similar pair with x and are kept over it
LostTo(x) == { w \in IdsOf(dfm_exact) : Detected(w, x) /\ Beats(w, x) }

\* C20: of every similar pair the collapse detects, the identifier with fewer
\* source tags, or the later one in catalog order when the counts are equal,
\* is remapped, and to an identifier of a pair it lost: to the other one of
\* the pair when it lost no second pair. So every remapped identifier points
\* to a target that has at least as many source tags, and the remap is
\* determined by the counts and the catalog order alone.
C20_MoreSourcesKept ==
  bPc \in { "collapsed", "done" } =>
    /\ DOMAIN id_map = IdsOf(dfm_exact)
    /\ \A a, b \in IdsOf(dfm_exact) :
         (Detected(a, b) /\ Beats(a, b)) =>
           /\ id_map[b] # b
           /\ LostTo(b) = { a } => id_map[b] = a
    /\ \A x \in IdsOf(dfm_exact) :
         id_map[x] # x =>
           /\ id_map[x] \in LostTo(x)
           /\ TagsOf(id_map[x]) >= TagsOf(x)
           /\ \A w \in LostTo(x) : PosOf(w) <= PosOf(id_map[x])

\* A similar pair whose later identifier has more source tags: the earlier
\* one was remapped to it.
C20_Witness ==
  /\ bPc = "done"
  /\ \E a, b \in IdsOf(dfm_exact) :
       /\ PosOf(a) < PosOf(b)
       /\ Similar(a, b)
       /\ TagsOf(b) > TagsOf(a)
       /\ id_map[a] = b
       /\ id_map[b] = b

(***************************************************************************)
(* Claims about the remap of the collapse and the regroup                  *)
(***************************************************************************)

FilledIn(x, f) ==
  { i \in DOMAIN df : id_map[df[i].lang_id] = x /\ df[i][f] # << >> }

\* C22: after the regroup, every first-non-empty string field of a row of
\* the written catalog holds the value of a record of the highest-priority
\* source among the records that ended in that row and have a value: no
\* value of a higher-priority source gives way to one of a lower-priority
\* source that came with the other collapsed identifier.
C22_RegroupKeepsPriority ==
  (bPc = "done" /\ regroup_needed(id_map)) =>
    \A o \in DOMAIN dfm : \A f \in FirstNonEmptyFields :
      LET filled == FilledIn(dfm[o].lang_id, f)
      IN  IF filled = { } THEN dfm[o][f] = << >>
          ELSE \E i \in filled :
                 /\ \A j \in filled :
                      SourceRank(SourceOf(rows[i])) <= SourceRank(SourceOf(rows[j]))
                 /\ dfm[o][f] = df[i][f]

(***************************************************************************)
(* parse_blocks (build_master_list_local_pldb.py), one line per step       *)
(***************************************************************************)

\* [A-Za-z0-9_], the first character of the key of KV_HEAD
IsKeyHeadStart(c) == c \in LowerLetters \cup UpperLetters \cup Digits \cup { "_" }

\* [\w\s/-], the further characters of the key of KV_HEAD
IsKeyHeadChar(c) == IsUnicodeWord(c) \/ IsSpace(c) \/ c \in { "/", "-" }

IsColon(c) == c = ":"

\* KV_HEAD.match(line): after the leading whitespace a key character, then
\* key characters only up to the first colon
KV_HEAD(line) ==
  LET t == LStripBy(IsSpace, line)
  IN  /\ t # << >>
      /\ IsKeyHeadStart(t[1])
      /\ \E i \in DOMAIN t : t[i] = ":"
      /\ \A j \in 1..(FirstIndex(t, IsColon) - 1) : IsKeyHeadChar(t[j])

\* m.group(1) of KV_HEAD: the lazy key group gives the whitespace before the
\* colon to the \s* that follows it
KV_HEAD_group1(line) ==
  LET t == LStripBy(IsSpace, line)
  IN  RStripBy(IsSpace, Upto(t, FirstIndex(t, IsColon) - 1))

\* m.group(2) of KV_HEAD
KV_HEAD_group2(line) ==
  LET t == LStripBy(IsSpace, line)
  IN  Strip(From(t, FirstIndex(t, IsColon) + 1))

\* LIST_ITEM.match(line)
LIST_ITEM(line) ==
  LET t == LStripBy(IsSpace, line)
  IN  t # << >> /\ t[1] = "-"

\* lm.group(1) of LIST_ITEM
LIST_ITEM_group1(line) == Strip(Tail(LStripBy(IsSpace, line)))

\* line.startswith((" ", "\t"))
StartsIndented(line) == line # << >> /\ line[1] \in { " ", "\t" }

\* props.setdefault(key, [])
SetDefault(d, key) == IF key \in DOMAIN d THEN d ELSE d @@ (key :> << >>)

\* props[key].append(val) if val is not empty
AppendIf(d, key, val) ==
  IF val # << >> THEN [ d EXCEPT ![key] = Append(@, val) ] ELSE d

\* "if current_key": neither None nor the empty string
Truthy(key) == key # None /\ key # << >>

\* the body of the loop with the indentation of the line tested before KV_HEAD
parse_line_indent_first(d, key, line) ==
  IF KV_HEAD(line) /\ ~StartsIndented(line)
  THEN LET k == Lower(Strip(KV_HEAD_group1(line)))
       IN  [ props |-> AppendIf(SetDefault(d, k), k, Strip(KV_HEAD_group2(line))),
             current_key |-> k ]
  ELSE IF Truthy(key)
  THEN IF LIST_ITEM(line)
       THEN [ props |-> AppendIf(d, key, Strip(LIST_ITEM_group1(line))),
              current_key |-> key ]
       ELSE IF StartsIndented(line)
       THEN [ props |-> AppendIf(d, key, Strip(line)), current_key |-> key ]
       ELSE [ props |-> d, current_key |-> None ]
  ELSE [ props |-> d, current_key |-> key ]

\* the body of the loop without the reset of current_key
parse_line_no_reset(d, key, line) ==
  IF KV_HEAD(line)
  THEN LET k == Lower(Strip(KV_HEAD_group1(line)))
       IN  [ props |-> AppendIf(SetDefault(d, k), k, Strip(KV_HEAD_group2(line))),
             current_key |-> k ]
  ELSE IF Truthy(key)
  THEN IF LIST_ITEM(line)
       THEN [ props |-> AppendIf(d, key, Strip(LIST_ITEM_group1(line))),
              current_key |-> key ]
       ELSE IF StartsIndented(line)
       THEN [ props |-> AppendIf(d, key, Strip(line)), current_key |-> key ]
       ELSE [ props |-> d, current_key |-> key ]
  ELSE [ props |-> d, current_key |-> key ]

\* the body of the loop "for line in text.splitlines()" on props d and
\* current_key key
parse_line(d, key, line) ==
  IF KV_HEAD(line)
  THEN LET k == Lower(Strip(KV_HEAD_group1(line)))
       IN  [ props |-> AppendIf(SetDefault(d, k), k, Strip(KV_HEAD_group2(line))),
             current_key |-> k ]
  ELSE IF Truthy(key)
  THEN IF LIST_ITEM(line)
       THEN [ props |-> AppendIf(d, key, Strip(LIST_ITEM_group1(line))),
              current_key |-> key ]
       ELSE IF StartsIndented(line)
       THEN [ props |-> AppendIf(d, key, Strip(line)), current_key |-> key ]
       ELSE [ props |-> d, current_key |-> None ]
  ELSE [ props |-> d, current_key |-> key ]

MaxLines == 3

\* the lines the texts are made of
LinePool ==
  { << "k", ":", " ", "v" >>,
    << "k", ":" >>,
    << "K", " ", ":", " ", "w" >>,
    << "j", ":", " ", "u" >>,
    << " ", "k", ":", " ", "z" >>,
    << " ", " ", "x" >>,
    << "\t", "x", " ", "y" >>,
    << "-", " ", "i" >>,
    << " ", " ", "-", " ", "y" >>,
    << "-" >>,
    << " ", "-", " " >>,
    << >>,
    << " " >>,
    << "t", "e", "x", "t" >>,
    << "s", "e", "e", " ", "(", "a", ")", ":", " ", "b" >>,
    << " ", "a", "t", " ", "1", "0", ":", "3", "0" >>,
    << "-", " ", "a", ":", " ", "b" >>,
    << "a", ".", "b", ":", " ", "c" >>,
    << " ", ":", " ", "v" >> }

ParseInit ==
  /\ IdIdle
  /\ BuildIdle
  /\ LinkIdle
  /\ TierIdle
  /\ FetchIdle
  /\ PastIdle
  /\ pb_lines = << >>
  /\ pb_props = << >>
  /\ pb_key = None

\* one turn of the loop of parse_blocks
ParseLine ==
  /\ Len(pb_lines) < MaxLines
  /\ \E line \in LinePool :
       LET next == parse_line(pb_props, pb_key, line)
       IN  /\ pb_lines' = Append(pb_lines, line)
           /\ pb_props' = next.props
           /\ pb_key' = next.current_key
  /\ UNCHANGED << pastVars, tierVars, fetchVars, idVars, buildVars, linkVars >>

ParseNext == ParseLine

SpecParse == ParseInit /\ [][ParseNext]_vars

(***************************************************************************)
(* Claims about parse_blocks                                               *)
(***************************************************************************)

\* the key a key line names
KeyOfLine(line) == Lower(Strip(KV_HEAD_group1(line)))

\* an unindented line that is neither a key line nor a list item
ResetLine(line) == ~KV_HEAD(line) /\ ~LIST_ITEM(line) /\ ~StartsIndented(line)

\* the key line line i continues: the last key line before it, if no reset
\* line stands between the two; 0 if there is none
HeadOf(i) ==
  LET heads == { h \in 1..(i - 1) :
                   /\ KV_HEAD(pb_lines[h])
                   /\ \A j \in (h + 1)..(i - 1) :
                        ~KV_HEAD(pb_lines[j]) /\ ~ResetLine(pb_lines[j]) }
  IN  IF heads = { } THEN 0 ELSE CHOOSE h \in heads : TRUE

\* the key line i adds a value to, None if it adds to none
TargetKey(i) ==
  IF KV_HEAD(pb_lines[i]) THEN KeyOfLine(pb_lines[i])
  ELSE IF HeadOf(i) # 0 THEN KeyOfLine(pb_lines[HeadOf(i)])
  ELSE None

\* the value line i adds, empty if it adds none
ValueOfLine(line) ==
  IF KV_HEAD(line) THEN Strip(KV_HEAD_group2(line))
  ELSE IF LIST_ITEM(line) THEN Strip(LIST_ITEM_group1(line))
  ELSE IF StartsIndented(line) THEN Strip(line)
  ELSE << >>

RECURSIVE ValuesFor(_, _)
\* the values the first n lines add to key, in input order
ValuesFor(key, n) ==
  IF n = 0 THEN << >>
  ELSE ValuesFor(key, n - 1)
         \o (IF TargetKey(n) = key /\ ValueOfLine(pb_lines[n]) # << >>
             THEN << ValueOfLine(pb_lines[n]) >>
             ELSE << >>)

\* the last unindented key line before line i, if no reset line stands
\* between the two; 0 if there is none
UnindentedHeadOf(i) ==
  LET IsHead(h) == KV_HEAD(pb_lines[h]) /\ ~StartsIndented(pb_lines[h])
      heads == { h \in 1..(i - 1) :
                   /\ IsHead(h)
                   /\ \A j \in (h + 1)..(i - 1) :
                        ~IsHead(j) /\ ~ResetLine(pb_lines[j]) }
  IN  IF heads = { } THEN 0 ELSE CHOOSE h \in heads : TRUE

\* C23 as claimed: after a key line, every non-blank line that starts with a
\* space or tab and every non-empty list item, up to the next reset or the
\* next unindented key line, is in the value list of that key, whatever its
\* text.
C23_ContinuationsAppended ==
  \A i \in DOMAIN pb_lines :
    LET line == pb_lines[i]
        h == UnindentedHeadOf(i)
    IN  ( /\ h # 0
          /\ \/ StartsIndented(line) /\ Strip(line) # << >>
             \/ LIST_ITEM(line) /\ LIST_ITEM_group1(line) # << >> ) =>
          /\ KeyOfLine(pb_lines[h]) \in DOMAIN pb_props
          /\ \E v \in Range(pb_props[KeyOfLine(pb_lines[h])]) :
               v \in { Strip(line), LIST_ITEM_group1(line), ValueOfLine(line) }

\* C23 as amended: a key line, indented or not, sets the current key; every
\* non-empty list item and every other non-blank indented line that is not
\* itself a key line, up to the next reset or the next key line, is appended
\* in input order to the value list of the current key, and a repeated key
\* accumulates its values. So the value list of every key is the sequence
\* of the values its lines add, and an indented line of the form
\* "key: value" starts a new key instead of continuing the current one.
C23_ValueListsInInputOrder ==
  /\ DOMAIN pb_props =
       { KeyOfLine(pb_lines[i]) : i \in { j \in DOMAIN pb_lines : KV_HEAD(pb_lines[j]) } }
  /\ \A key \in DOMAIN pb_props : pb_props[key] = ValuesFor(key, Len(pb_lines))

\* "k: v", an indented line and an indented key line for the same key: the
\* three values are in the list of k, in input order.
C23_Witness ==
  /\ pb_lines = << << "k", ":", " ", "v" >>, << " ", " ", "x" >>,
                   << " ", "k", ":", " ", "z" >> >>
  /\ pb_props = (<< "k" >> :> << << "v" >>, << "x" >>, << "z" >> >>)

\* what one turn of the loop may do to props and current_key on the line it
\* reads: a reset line leaves no current key; with no current key a line
\* that is no key line is discarded; and a value list changes only if it is
\* the list of the most recent key head
ResetStep ==
  LET line == pb_lines'[Len(pb_lines')]
  IN  /\ ResetLine(line) => pb_key' = None
      /\ (pb_key = None /\ ~KV_HEAD(line)) =>
           (pb_props' = pb_props /\ pb_key' = None)
      /\ \A key \in DOMAIN pb_props' :
           (IF key \in DOMAIN pb_props THEN pb_props'[key] # pb_props[key] ELSE TRUE) =>
             /\ key = pb_key'
             /\ KV_HEAD(line) \/ key = pb_key
      /\ DOMAIN pb_props \subseteq DOMAIN pb_props'

\* C24: an unindented line that is neither a key line nor a list item, the
\* empty line included, resets the current key; list items and indented lines
\* between a reset and the next key line, and those before the first key
\* line, are discarded; and a value is only ever attached to the most recent
\* key head.
C24_ResetDiscards == [][ResetStep]_vars

\* "k: v", an empty line, then a list item: the item was discarded.
C24_Witness ==
  /\ pb_lines = << << "k", ":", " ", "v" >>, << >>, << "-", " ", "i" >> >>
  /\ pb_props = (<< "k" >> :> << << "v" >> >>)
  /\ pb_key = None

\* C25 as claimed: a row linked by the filename tier is linked to an entry of
\* its longest indexed token, and of equally long indexed tokens to an entry
\* of the one that stands first in the row's token order.
C25_TiesToFirstSeen ==
  lPc # "idle" =>
    \A p \in Matched :
      NameMatchOf(master[p[2]]) = None =>
        LET toks == ExtTokensOf(master[p[2]])
            idx == { i \in DOMAIN toks : toks[i] \in DOMAIN PygIndexes.fname_index }
        IN  idx # { } =>
              \E i \in idx :
                /\ \A j \in idx :
                     /\ Len(toks[j]) <= Len(toks[i])
                     /\ Len(toks[j]) = Len(toks[i]) => i <= j
                /\ pyg_matches[p[1]][p[2]] \in PygIndexes.fname_index[toks[i]]

\* the index of the Rosetta Code linker had it been built from the name
\* columns and the extension column of the catalog alone
NameAndExtIndex == build_master_index_all_strings(master, MasterColumns)

\* C26 as claimed: a row is linked to a foreign entry only on the evidence of
\* its name columns or of its declared extension columns: a Pygments entry
\* through the row's name or one of its extension tokens, a Rosetta Code
\* entry through an index of those columns; what other columns hold (the
\* fields the Pygments linker wrote) causes no link.
C26_LinkOnlyByNameOrExtension ==
  lPc # "idle" =>
    /\ \A p \in Matched :
         LET row == master[p[2]]
             match == pyg_matches[p[1]][p[2]]
         IN  match # None =>
               \/ match = NameMatchOf(row)
               \/ \E t \in IndexedTokens(row) : match \in PygIndexes.fname_index[t]
    /\ \A r \in { 1, 2 } :
         rc_name[r] # Unset =>
           \A i \in DOMAIN master :
             rc_name[r][i] # None =>
               \E candidates \in KeyOrders(NameAndExtIndex.keys) :
                 map_rosetta_to_master(rc_name[r][i], NameAndExtIndex.row, candidates) = i

(***************************************************************************)
(* The fetch helpers with fallback endpoints: api_get of                   *)
(* augment_with_rosettacode.py and http_get_plain of augment_languages.py  *)
(***************************************************************************)

PRIMARY_API == "https://rosettacode.org/w/api.php"

FALLBACK_API == "https://rosettacode.org/mw/api.php"

API_BASES == << PRIMARY_API, FALLBACK_API >>

\* the url lists main() of augment_languages.py calls http_get_plain with
PlainUrlLists ==
  { << "GH_LANGUAGES_RS_URL", "DRS_LANGUAGES_RS_URL" >>,
    << "GH_LANGUAGE_INFO_MAP_URL", "DRS_LANGUAGE_INFO_MAP_URL" >> }

\* range(3): the attempts of api_get on one base
ApiAttempts == 3

\* what requests.get may come back with: no response at all (it raises: no
\* connection, or the timeout of 30 seconds), or a response with a status
\* and a body
ReplyPool ==
  { [ sent |-> FALSE, status_code |-> 0, text |-> << >> ],
    [ sent |-> TRUE, status_code |-> 503, text |-> << "<", "h", "t", "m", "l", ">", "b", "u", "s", "y" >> ],
    [ sent |-> TRUE, status_code |-> 404, text |-> << "{", "}" >> ],
    [ sent |-> TRUE, status_code |-> 200, text |-> << "{", "}" >> ],
    [ sent |-> TRUE, status_code |-> 200, text |-> << "{", "\"", "a", "\"", ":", "1", "}" >> ],
    [ sent |-> TRUE, status_code |-> 200, text |-> << "<", "H", "T", "M", "L", ">", "x" >> ],
    [ sent |-> TRUE, status_code |-> 200, text |-> << >> ],
    [ sent |-> TRUE, status_code |-> 200, text |-> << "p", "u", "b", " ", "e", "n", "u", "m" >> ] }

\* r.raise_for_status() raises
raise_for_status(r) == r.status_code >= 400 /\ r.status_code < 600

\* r.json() on the bodies of ReplyPool: the body of a JSON object decodes,
\* every other body raises
json(text) ==
  IF text # << >> /\ text[1] = "{" /\ text[Len(text)] = "}"
  THEN { [ json |-> text ] }
  ELSE { }

\* the try block of api_get on what requests.get came back with: the set of
\* what it returns, empty if it raises
api_get_try(r) ==
  IF ~r.sent THEN { }
  ELSE IF raise_for_status(r) THEN { }
  ELSE json(r.text)

\* the try block of http_get_plain that returns whatever body it gets
http_get_plain_try_any_body(r) ==
  IF ~r.sent THEN { }
  ELSE IF raise_for_status(r) THEN { }
  ELSE { r.text }

\* the try block of http_get_plain: the set of what it returns, empty if it
\* raises or goes on to the next url
http_get_plain_try(r) ==
  IF ~r.sent THEN { }
  ELSE IF raise_for_status(r) THEN { }
  ELSE IF Contains(Lower(r.text), << "<", "h", "t", "m", "l" >>) THEN { }
  ELSE { r.text }

RetryInit ==
  /\ IdIdle
  /\ BuildIdle
  /\ LinkIdle
  /\ TierIdle
  /\ FetchIdle
  /\ ParseIdle
  /\ \/ rPc = "api_get" /\ rUrls = API_BASES
     \/ rPc = "http_get_plain" /\ rUrls \in PlainUrlLists
  /\ rBase = 1
  /\ rAttempt = 0
  /\ rLog = << >>
  /\ rResult = { }

\* one turn of the inner loop of api_get: the request, the return if it
\* succeeded, the sleep if it failed, and the raise after the last turn
api_get ==
  /\ rPc = "api_get"
  /\ \E r \in ReplyPool :
       LET out == api_get_try(r)
       IN  /\ rLog' = Append(rLog, [ url |-> rUrls[rBase], reply |-> r ])
           /\ rResult' = out
           /\ IF out # { }
              THEN rPc' = "returned" /\ UNCHANGED << rBase, rAttempt >>
              ELSE IF rAttempt + 1 < ApiAttempts
              THEN rPc' = rPc /\ rBase' = rBase /\ rAttempt' = rAttempt + 1
              ELSE IF rBase < Len(rUrls)
              THEN rPc' = rPc /\ rBase' = rBase + 1 /\ rAttempt' = 0
              ELSE rPc' = "raised" /\ UNCHANGED << rBase, rAttempt >>
  /\ UNCHANGED << rUrls, parseVars, tierVars, fetchVars, idVars, buildVars, linkVars >>

\* one turn of the loop of http_get_plain, and the raise after the last turn
http_get_plain ==
  /\ rPc = "http_get_plain"
  /\ \E r \in ReplyPool :
       LET out == http_get_plain_try(r)
       IN  /\ rLog' = Append(rLog, [ url |-> rUrls[rBase], reply |-> r ])
           /\ rResult' = out
           /\ IF out # { }
              THEN rPc' = "returned" /\ rBase' = rBase
              ELSE IF rBase < Len(rUrls)
              THEN rPc' = rPc /\ rBase' = rBase + 1
              ELSE rPc' = "raised" /\ rBase' = rBase
  /\ UNCHANGED << rUrls, rAttempt, parseVars, tierVars, fetchVars, idVars, buildVars, linkVars >>

RetryNext ==
  \/ api_get
  \/ http_get_plain

\* a helper runs synchronously: every request ends within its timeout and
\* every sleep is finite, so a turn of the loop that can be taken is taken
SpecRetry == RetryInit /\ [][RetryNext]_vars /\ WF_vars(RetryNext)

\* the requests a helper sends if every one of them fails
Schedule ==
  IF rUrls = API_BASES
  THEN [ i \in 1..(ApiAttempts * Len(rUrls)) |-> rUrls[((i - 1) \div ApiAttempts) + 1] ]
  ELSE rUrls

\* an attempt is successful: a response came, its status is no error status,
\* and its body is a JSON object (api_get) or holds no "<html"
\* (http_get_plain)
Succeeded(r) ==
  /\ r.sent
  /\ r.status_code \notin 400..599
  /\ IF rUrls = API_BASES
     THEN r.text # << >> /\ Head(r.text) = "{" /\ r.text[Len(r.text)] = "}"
     ELSE \A i \in 1..(Len(r.text) - 4) :
            Lower(SubSeq(r.text, i, i + 4)) # << "<", "h", "t", "m", "l" >>

\* the response of an attempt as the helper hands it on
Handed(r) == IF rUrls = API_BASES THEN [ json |-> r.text ] ELSE r.text

RetrySafe ==
  /\ Len(rLog) <= Len(Schedule)
  /\ \A i \in DOMAIN rLog : rLog[i].url = Schedule[i]
  /\ \A i \in 1..(Len(rLog) - 1) : ~Succeeded(rLog[i].reply)
  /\ rPc = "returned" <=> (rLog # << >> /\ Succeeded(rLog[Len(rLog)].reply))
  /\ rPc = "returned" => rResult = { Handed(rLog[Len(rLog)].reply) }
  /\ rPc = "raised" <=>
       (Len(rLog) = Len(Schedule) /\ \A i \in DOMAIN rLog : ~Succeeded(rLog[i].reply))
  /\ rPc # "returned" => rResult = { }

C27_WitnessRaised ==
  /\ rPc = "raised"
  /\ rUrls # API_BASES
  /\ Len(rLog) = 2
  /\ rLog[1].reply.status_code = 200
  /\ rLog[2].reply.status_code = 503

\* C28 as claimed: a row is flagged in_hyperpolyglot, its hyperpolyglot_name
\* being not NA, only if that name is an entry of the foreign language list.
C28_FlaggedNameIsForeign ==
  (hp_out # Unset /\ hp_out # None) => hp_out \in Range(hp_list)

\* C29 as claimed: in every row of the catalog the build stage writes,
\* source_count is the number of distinct source tags in the row's merged
\* source_flags.
C29_SourceCountIsDistinctTags ==
  bPc = "done" =>
    \A o \in DOMAIN dfm :
      dfm[o].source_count = Cardinality(Range(dfm[o].source_flags))

RECURSIVE Remapped(_, _)
\* identifier x after k applications of the remap
Remapped(x, k) == IF k = 0 THEN x ELSE id_map[Remapped(x, k - 1)]

\* the loops of the collapse detect a similar pair
SomePairDetected == \E a, b \in IdsOf(dfm_exact) : Detected(a, b)

\* C30: the remap of the collapse has no cycle: no remapped identifier comes
\* back to itself, however often the remap is applied. So the remap is no
\* permutation of the identifiers: the guard of the regroup is true exactly
\* when the loops detected a similar pair, the regroup then runs and writes
\* strictly fewer rows than the catalog had, and with no similar pair the
\* catalog is left as it was.
C30_RemapHasNoCycle ==
  /\ bPc \in { "collapsed", "done" } =>
       /\ \A x \in DOMAIN id_map :
            id_map[x] # x =>
              \A k \in 1..Cardinality(DOMAIN id_map) : Remapped(x, k) # x
       /\ SomePairDetected <=> regroup_needed(id_map)
       /\ SomePairDetected <=> (\E x \in DOMAIN id_map : id_map[x] # x)
  /\ bPc = "done" =>
       IF SomePairDetected
       THEN /\ Len(dfm) < Len(dfm_exact)
            /\ Len(dfm) = Cardinality({ id_map[x] : x \in DOMAIN id_map })
       ELSE dfm = dfm_exact

\* Three identifiers, the third remapped to the second and the second to the
\* first: a chain, no cycle, and the regroup wrote two rows for the three.
C30_Witness ==
  /\ bPc = "done"
  /\ Len(dfm_exact) = 3
  /\ \E x \in DOMAIN id_map :
       /\ id_map[x] # x
       /\ id_map[id_map[x]] # id_map[x]
       /\ id_map[id_map[id_map[x]]] = id_map[id_map[x]]
  /\ Len(dfm) = 2

====
